---------------------------- MODULE Spec2Model ----------------------------
(***************************************************************************)
(* Model of the pickup-winder firmware (src/pickup_winder.ino, v1.2).      *)
(*                                                                         *)
(* One iteration of loop() is three steps, in the order of the code:       *)
(*   pc = "serial"   checkSerial() and, for a completed line,              *)
(*                   processCommand()                                      *)
(*   pc = "timeout"  checkTimeout()                                        *)
(*   pc = "run"      the winding step of loop() with its completion check  *)
(* Every command handler is one action that carries the whole handler.     *)
(*                                                                         *)
(* Angles are kept in thousandths of a degree (the code uses float).       *)
(* Time is kept as the time since the last command, in model clock units,  *)
(* saturating just above timeoutLimit: checkTimeout() reads the clock only *)
(* through millis() - lastCommandTime > timeoutLimit.                      *)
(* Lengths are kept in thousandths of a millimetre and resistances in      *)
(* ohms (the code uses float); a float that is not a number is NaN.        *)
(* The store is kept by cell: the address a value is written at and the    *)
(* two halves (low two bytes, high two bytes) of what lies there.          *)
(* verboseMode only selects what is printed and is left out.               *)
(***************************************************************************)
EXTENDS Integers, Sequences, FiniteSets, TLC

\* ------------------------------------------------------------- bounds --
\* Largest turn count a WIND COUNT argument takes in the model.
MaxTurns == 1
\* stepsPerTurn of the model (the firmware's value is 3200, line 57); every
\* product targetTurns * stepsPerTurn of the model is far below 2^31.
stepsPerTurn == 2
\* timeoutLimit in model clock units (the firmware's default is 10000 ms).
TimeoutUnits == 1
\* Thousandths of a degree per degree.
AngleScale == 1000
\* turnsPerLayer as setup() derives it from the stored bobbin height and wire
\* diameter (45 for the default 9.0 mm / 0.2 mm; 2 for 0.4 mm / 0.2 mm).
LayerTurns == 2
\* Runs through the ADDR_* macros whose cells the model keeps.
StorePasses == 3
\* Clock units the model counts since the last command.
MaxClock == 3
\* Longest job, in turns, whose guide positions are followed turn by turn.
GuideTurns == 4
\* MAX_CMD_LENGTH, the bytes of inputBuffer (64 in the sketch).
MAX_CMD_LENGTH == 3
\* Characters that can wait in the receive buffer of the UART.
RxBytes == 3

\* ---------------------------------------------------------- constants --
DefaultServoMin == 77
DefaultServoMax == 103
\* Defaults of loadSettings() and updateAndValidate(): thousandths of a
\* millimetre, microseconds, clock units of 1000 ms, steps.
DefaultWireDiameter == 200
DefaultStepDelay == 1000
MaxStepDelay == 20000
MinTimeout == 1
DefaultTimeout == 10
DefaultAccelSteps == 400
MaxAccelSteps == 10000
DefaultBobbinLength == 60000
DefaultBobbinWidth == 4000
DefaultBobbinHeight == 9000
MaxBobbinSide == 1000000
MaxBobbinHeight == 100000
\* minStepDelay as the sketch initialises it.
InitialMinStepDelay == 300
\* stepsPerTurn of the firmware.
FirmwareStepsPerTurn == 3200
\* Microseconds in a second, the numerator of WIND SPEED.
MicrosPerSecond == 1000000
\* 0xFFFFFFFF ms, the unsigned long of four erased bytes, in clock units.
ErasedTimeout == 4294967
\* A float that is not a number: below every number the code compares it to.
NaN == -999999999

Deg(a) == a * AngleScale

SweepModes == {"FIRMWARE", "GUI", "PATTERN"}

\* Arguments the model draws for the commands.
TurnArgs == (-1) .. MaxTurns
\* SERVO POS <angle>
AngleArgs == {Deg(90)}
\* SERVO CALIBRATE <min> <max>: a valid pair and a reversed one.
CalibrateArgs == { <<Deg(70), Deg(100)>>, <<Deg(100), Deg(70)>> }
\* SERVO CALIBRATE 70 100 and SERVO CALIBRATE 104 200.
AnyCalibrateArgs == { <<Deg(70), Deg(100)>>, <<Deg(104), Deg(200)>> }
\* WIND PATTERN <min> <max> <turnsPerLayer> <scatter>
PatternArgs == { <<Deg(80), Deg(100), 2, 0>> }
\* The overlays of the jobs followed turn by turn: two and three turns per
\* layer, without and with scatter.
JobPatterns ==
    { <<Deg(80), Deg(100), 2, 0>>, <<Deg(80), Deg(100), 3, 0>>,
      <<Deg(80), Deg(100), 3, 10>> }
\* WIND PATTERN with the turns per layer the guide computation tells apart.
SweepPatternArgs ==
    { <<Deg(80), Deg(100), n, 0>> : n \in (-1) .. 2 }
\* WIND SCATTER <percent>
ScatterArgs == {10}
\* TEST_LAYER C<turns>, when the token is given.
TestTurnArgs == {0, 1}
\* TEST_LAYER A<angle>, when the token is given (degrees of sweep).
TestSweepArgs == {20}

VARIABLES
    pc,                 \* position in loop(): "serial", "timeout", "run"
    cmd,                \* at pc = "timeout": the command processCommand()
                        \* has just handled, "NONE" when there was none
    args,               \* at pc = "timeout": the argument tokens of the line
                        \* just handled, each a sequence of characters
    report,             \* the status or error line the step just taken has
                        \* printed for itself, "" when it printed none
    running,            \* bool running
    paused,             \* bool paused
    outputsEnabled,     \* bool outputsEnabled
    enPin,              \* level of EN_PIN: "LOW" (driver enabled) or "HIGH"
    servoAttached,      \* layServo.attached()
    targetTurns,        \* long targetTurns
    stepCount,          \* long stepCount
    totalSteps,         \* long totalSteps
    turnsPerLayer,      \* long turnsPerLayer
    sweepControlMode,   \* SweepControlMode sweepControlMode
    servoPos,           \* float servoPos
    servoMinAngle,      \* float servoMinAngle
    servoMaxAngle,      \* float servoMaxAngle
    pattern,            \* <<patternMinAngle, patternMaxAngle,
                        \*   patternTurnsPerLayer, patternScatter>>
    sinceLastCommand,   \* millis() - lastCommandTime, saturating
    timeoutLimit,       \* unsigned long timeoutLimit
    wireDiameter,       \* float wireDiameter
    bobbinLength,       \* float bobbinLength
    bobbinWidth,        \* float bobbinWidth
    bobbinHeight,       \* float bobbinHeight
    avgTurnLength,      \* float avgTurnLength
    lastCalcRequestedResistance,    \* float lastCalcRequestedResistance
    initialStepDelay,   \* int initialStepDelay
    minStepDelay,       \* int minStepDelay
    accelSteps,         \* long accelSteps
    stepperForward,     \* bool stepperForward
    addr,               \* int addr, the running EEPROM address
    EEPROM,             \* the store: cell address -> <<low half, high half>>
    fault,              \* "none", or the undefined operation the program
                        \* has reached
    serialRx,           \* the characters received and not yet read
    inputBuffer,        \* char inputBuffer[MAX_CMD_LENGTH]
    inputIndex,         \* byte inputIndex
    \* history variables (not read by the program)
    jobHistory,         \* what has happened since the last WIND START:
                        \* "none" (no START yet), "quiet" (no command and no
                        \* timeout), "pause" (only WIND PAUSE, WIND RESUME
                        \* and timeouts), "other"
    jobTicks,           \* loop iterations since WIND START, while "quiet"
    jobPulses,          \* pulses loop() has emitted since WIND START, while
                        \* "quiet" or "pause"
    ramp,               \* the branch stepWithAcceleration() took in the
                        \* last iteration of loop(), "none" without a pulse
    written,            \* the indices of inputBuffer the last call of
                        \* checkSerial() has written to
    dropped             \* the characters the last call of checkSerial()
                        \* has read and not stored

progVars == <<running, paused, outputsEnabled, enPin, servoAttached,
              targetTurns, stepCount, totalSteps, turnsPerLayer,
              sweepControlMode, servoPos, servoMinAngle, servoMaxAngle,
              pattern, sinceLastCommand, timeoutLimit,
              wireDiameter, bobbinLength, bobbinWidth, bobbinHeight,
              avgTurnLength, lastCalcRequestedResistance, initialStepDelay,
              minStepDelay, accelSteps, stepperForward, addr, EEPROM, fault>>
histVars == <<jobHistory, jobTicks, jobPulses, ramp>>
readerVars == <<serialRx, inputBuffer, inputIndex, written, dropped>>
vars == <<pc, cmd, args, report, progVars, histVars, readerVars>>

flagVars == <<running, paused>>
outVars == <<enPin, servoAttached, outputsEnabled>>
jobVars == <<targetTurns, stepCount, totalSteps>>
calVars == <<servoMinAngle, servoMaxAngle, turnsPerLayer>>
bobbinVars == <<bobbinLength, bobbinWidth, bobbinHeight>>
speedVars == <<initialStepDelay, minStepDelay, accelSteps, stepperForward>>
cfgVars == <<wireDiameter, bobbinVars, avgTurnLength,
             lastCalcRequestedResistance, speedVars>>
storeVars == <<addr, EEPROM>>

\* ------------------------------------------------------------ helpers --
Min(a, b) == IF a < b THEN a ELSE b
Abs(a) == IF a < 0 THEN -a ELSE a
\* C integer division and remainder (truncation toward zero), b # 0.
CDiv(a, b) ==
    LET q == Abs(a) \div Abs(b)
    IN  IF (a < 0) = (b < 0) THEN q ELSE -q
CMod(a, b) == a - b * CDiv(a, b)

\* The clock saturates one unit above the limit, and above MaxClock when the
\* limit is larger than that.
Clock(t) == Min(t, Min(timeoutLimit, MaxClock) + 1)

\* enableOutputs(): <<enPin, servoAttached, outputsEnabled>> afterwards.
EnabledOutputs == <<"LOW", TRUE, TRUE>>
\* disableOutputs(): <<enPin, servoAttached, outputsEnabled>> afterwards.
DisabledOutputs == <<"HIGH", FALSE, FALSE>>

SetOutputs(o) ==
    /\ enPin' = o[1]
    /\ servoAttached' = o[2]
    /\ outputsEnabled' = o[3]

\* updateAndValidate(), the servo angles: <<servoMinAngle, servoMaxAngle>>
\* afterwards, for the values mn, mx before it.
ValidatedAngles(mn, mx) ==
    LET mn1 == IF mn < 0 \/ mn > Deg(180) \/ mn >= mx
               THEN Deg(DefaultServoMin) ELSE mn
        mx1 == IF mx < 0 \/ mx > Deg(180) \/ mn1 >= mx
               THEN Deg(DefaultServoMax) ELSE mx
    IN  <<mn1, mx1>>

\* Faulty variant of UpdateServoPosition: every layer is swept from the low
\* end, the guide jumping back at a layer boundary.
UpdateServoPositionSnapBack(currentStepCount, totalTurnsInLayer, minAngle, maxAngle, scatterPercent) ==
    LET currentTurn == CDiv(currentStepCount, stepsPerTurn)
        angleRange == maxAngle - minAngle
        scatterAmount == CDiv(angleRange * scatterPercent, 100)
        effectiveMin == minAngle + CDiv(scatterAmount, 2)
        effectiveMax == maxAngle - CDiv(scatterAmount, 2)
    IN  IF totalTurnsInLayer = 0
        THEN {effectiveMin, effectiveMax}
        ELSE LET layer == CDiv(currentTurn, totalTurnsInLayer)
                 turnInLayer == CMod(currentTurn, totalTurnsInLayer)
                 sweepRange == effectiveMax - effectiveMin
             IN  IF totalTurnsInLayer <= 1
                 THEN { IF CMod(layer, 2) = 0 THEN effectiveMin
                                             ELSE effectiveMax }
                 ELSE LET pitchAngle == CDiv(sweepRange, totalTurnsInLayer - 1)
                      IN  { effectiveMin + turnInLayer * pitchAngle }

\* updateServoPosition(): the values servoPos can take afterwards.  With
\* totalTurnsInLayer = 0 the division and the remainder are undefined: layer
\* is then any value, and servoPos either end of the effective range.
UpdateServoPosition(currentStepCount, totalTurnsInLayer, minAngle, maxAngle, scatterPercent) ==
    LET currentTurn == CDiv(currentStepCount, stepsPerTurn)
        angleRange == maxAngle - minAngle
        scatterAmount == CDiv(angleRange * scatterPercent, 100)
        effectiveMin == minAngle + CDiv(scatterAmount, 2)
        effectiveMax == maxAngle - CDiv(scatterAmount, 2)
    IN  IF totalTurnsInLayer = 0
        THEN {effectiveMin, effectiveMax}
        ELSE LET layer == CDiv(currentTurn, totalTurnsInLayer)
                 turnInLayer == CMod(currentTurn, totalTurnsInLayer)
                 sweepRange == effectiveMax - effectiveMin
             IN  IF totalTurnsInLayer <= 1
                 THEN { IF CMod(layer, 2) = 0 THEN effectiveMin
                                             ELSE effectiveMax }
                 ELSE LET pitchAngle == CDiv(sweepRange, totalTurnsInLayer - 1)
                      IN  { IF CMod(layer, 2) = 0
                            THEN effectiveMin + turnInLayer * pitchAngle
                            ELSE effectiveMax - turnInLayer * pitchAngle }

\* ----------------------------------------------------------- the store --
\* sizeof() of the types the ADDR_* macros name (an 8-bit AVR board).
SizeofFloat == 4
SizeofInt == 2
SizeofLong == 4

\* What each ADDR_* macro adds to addr when it is used, in the order
\* saveSettings() and loadSettings() use them: ADDR_SERVO_MIN adds nothing,
\* every other macro adds the size of the field before it, and no macro ever
\* sets addr back.
AddrStep ==
    <<0, SizeofFloat, SizeofFloat, SizeofFloat, SizeofInt, SizeofLong,
      SizeofLong, SizeofFloat, SizeofFloat, SizeofFloat, SizeofFloat>>

\* The C type of each field, in the same order: servo min, servo max, wire
\* diameter, initial step delay, timeout limit, acceleration steps, bobbin
\* length, width, height, last requested resistance, sweep mode.
FieldType ==
    <<"float", "float", "float", "int", "ulong", "long",
      "float", "float", "float", "float", "int">>

Fields == 1 .. Len(AddrStep)

\* addr after the macro of field f has been used, for addr = a before the
\* macro of the first field.
RECURSIVE AddrAfter(_, _)
AddrAfter(a, f) == IF f = 0 THEN a ELSE AddrAfter(a, f - 1) + AddrStep[f]

\* What one saveSettings() or one loadSettings() adds to addr.
PassBytes == AddrAfter(0, Len(AddrStep))

\* The cells of the store that the model keeps: those of the first
\* StorePasses runs through the macros after a reset.
StoreCells ==
    { AddrAfter(k * PassBytes, f) : k \in 0 .. (StorePasses - 1), f \in Fields }

\* Another n runs through the macros stay inside the cells kept.
HasRoom(n) == addr + (n - 1) * PassBytes <= (StorePasses - 1) * PassBytes

\* A half cell that holds 0xFF 0xFF.
Erased == <<"erased", 0>>
ErasedStore == [c \in StoreCells |-> <<Erased, Erased>>]

\* The low two bytes of a float holding a whole number below 256 (every
\* angle of the model) are zero.
FloatLowHalf(v) == 0

\* (int)sweepControlMode and back (enum SweepControlMode).
ModeCode(m) == CASE m = "FIRMWARE" -> 0 [] m = "GUI" -> 1 [] OTHER -> 2
ModeOfCode(n) == CASE n = 0 -> "FIRMWARE" [] n = 1 -> "GUI"
                   [] n = 2 -> "PATTERN" [] OTHER -> "INVALID"

\* EEPROM.put(c, v) for a value of type t: a two-byte value replaces the low
\* half of the cell, a four-byte value both halves.
Put(store, c, t, v) ==
    IF t = "int"
    THEN [store EXCEPT ![c] = << <<t, v>>, @[2] >>]
    ELSE [store EXCEPT ![c] = << <<t, v>>, <<t, v>> >>]

\* EEPROM.get(c, x) for x of type t.  Erased bytes read as NaN (float), -1
\* (int, long) and 0xFFFFFFFF (unsigned long).  The high half decides a
\* float: under another low half the value differs by less than 1 %.
Get(store, c, t) ==
    LET lo == store[c][1]
        hi == store[c][2]
    IN  CASE t = "float" -> (IF hi[1] = "float" THEN hi[2] ELSE NaN)
          [] t = "int"   -> (IF lo[1] = "int" THEN lo[2]
                             ELSE IF lo[1] = "float" THEN FloatLowHalf(lo[2])
                             ELSE -1)
          [] t = "long"  -> (IF lo[1] = "long" THEN lo[2] ELSE -1)
          [] OTHER       -> (IF lo[1] = "ulong" THEN lo[2] ELSE ErasedTimeout)

\* clearEEPROM() with addr = a: bytes 0 .. a + sizeof(int) - 1 become 0xFF
\* (EEPROM_SIZE is addr + sizeof(int), read with the addr of the moment).
ClearEEPROM(store, a) ==
    [c \in StoreCells |->
        << IF c + SizeofInt <= a + SizeofInt THEN Erased ELSE store[c][1],
           IF c + SizeofFloat <= a + SizeofInt THEN Erased ELSE store[c][2] >>]

\* The fields saveSettings() writes, in order.
CurrentSettings ==
    <<servoMinAngle, servoMaxAngle, wireDiameter, initialStepDelay,
      timeoutLimit, accelSteps, bobbinLength, bobbinWidth, bobbinHeight,
      lastCalcRequestedResistance, ModeCode(sweepControlMode)>>

\* saveSettings() from field f on, with addr = a before the macro of field f.
RECURSIVE PutFrom(_, _, _, _)
PutFrom(store, a, f, cfg) ==
    IF f > Len(AddrStep) THEN store
    ELSE LET c == a + AddrStep[f]
         IN  PutFrom(Put(store, c, FieldType[f], cfg[f]), c, f + 1, cfg)

\* saveSettings(): the store afterwards.
SaveSettings(store, a, cfg) == PutFrom(store, a, 1, cfg)

\* The eleven EEPROM.get() of loadSettings(), with addr = a before them.
LoadedRaw(store, a) ==
    [f \in Fields |-> Get(store, AddrAfter(a, f), FieldType[f])]

IsNan(x) == x = NaN

\* Faulty variant of CheckedMode: the load keeps whatever mode is stored.
CheckedModeKeepsAll(code) == code

\* loadSettings(), the sweep mode read (as its int): anything but FIRMWARE
\* and GUI becomes FIRMWARE.
CheckedMode(code) ==
    IF code # ModeCode("FIRMWARE") /\ code # ModeCode("GUI")
    THEN ModeCode("FIRMWARE") ELSE code

\* The sanity checks of loadSettings() on the eleven values read, with the
\* minStepDelay of the moment: the values the variables hold afterwards
\* (the sweep mode still as its int).
CheckedSettings(raw, minDelay) ==
    LET mn1 == IF IsNan(raw[1]) \/ raw[1] < 0 \/ raw[1] > Deg(180)
               THEN Deg(DefaultServoMin) ELSE raw[1]
        mx1 == IF IsNan(raw[2]) \/ raw[2] < 0 \/ raw[2] > Deg(180)
               THEN Deg(DefaultServoMax) ELSE raw[2]
        bad == mn1 >= mx1
    IN  << IF bad THEN Deg(DefaultServoMin) ELSE mn1,
           IF bad THEN Deg(DefaultServoMax) ELSE mx1,
           IF IsNan(raw[3]) \/ raw[3] <= 0 THEN DefaultWireDiameter ELSE raw[3],
           IF raw[4] <= minDelay \/ raw[4] > MaxStepDelay
           THEN DefaultStepDelay ELSE raw[4],
           IF raw[5] < MinTimeout THEN DefaultTimeout ELSE raw[5],
           IF raw[6] <= 0 \/ raw[6] > MaxAccelSteps
           THEN DefaultAccelSteps ELSE raw[6],
           IF IsNan(raw[7]) \/ raw[7] <= 0 \/ raw[7] > MaxBobbinSide
           THEN DefaultBobbinLength ELSE raw[7],
           IF IsNan(raw[8]) \/ raw[8] <= 0 \/ raw[8] > MaxBobbinSide
           THEN DefaultBobbinWidth ELSE raw[8],
           IF IsNan(raw[9]) \/ raw[9] <= 0 \/ raw[9] > MaxBobbinHeight
           THEN DefaultBobbinHeight ELSE raw[9],
           IF IsNan(raw[10]) \/ raw[10] < 0 THEN 0 ELSE raw[10],
           CheckedMode(raw[11]) >>

\* loadSettings() with addr = a: the eleven variables afterwards.
LoadSettings(store, a, minDelay) ==
    CheckedSettings(LoadedRaw(store, a), minDelay)

\* PI times x >= 0, in the model's fixed point: x * 355 / 113, computed
\* without the product x * 355.
PiTimes(x) == (x \div 113) * 355 + ((x % 113) * 355) \div 113

\* calculateAvgTurnLength(): avgTurnLength afterwards.
AvgTurnLength(len, wid, hgt, dia, turns) ==
    IF len <= 0 \/ wid <= 0 \/ dia <= 0 \/ turns <= 0
    THEN 0
    ELSE LET corePerimeter == 2 * len + PiTimes(wid)
             perLayer == CDiv(hgt, dia)
             turnsPerLayerNow == IF perLayer <= 0 THEN 1 ELSE perLayer
             windingThickness == CDiv(turns * dia, turnsPerLayerNow)
             finalPerimeter == 2 * len + PiTimes(wid + 2 * windingThickness)
         IN  CDiv(corePerimeter + finalPerimeter, 2)

\* updateAndValidate(), the wire diameter afterwards.
ValidatedWire(dia) ==
    IF IsNan(dia) \/ dia <= 0 THEN DefaultWireDiameter ELSE dia

\* computeWindingParameters(): turnsPerLayer afterwards.
ComputedTurnsPerLayer(hgt, dia) ==
    IF dia > 0 THEN CDiv(hgt, dia) ELSE turnsPerLayer

\* A store whose first eleven cells hold the settings the sketch starts
\* the model's jobs with, the rest erased.
FactorySettings ==
    <<Deg(DefaultServoMin), Deg(DefaultServoMax), DefaultWireDiameter,
      DefaultStepDelay, TimeoutUnits, DefaultAccelSteps, DefaultBobbinLength,
      DefaultBobbinWidth, LayerTurns * DefaultWireDiameter, 0,
      ModeCode("FIRMWARE")>>
FactoryStore == SaveSettings(ErasedStore, 0, FactorySettings)

\* ------------------------------------------------------- line reader ---
\* The zero byte, and inputBuffer as the start-up code zeroes it.
Nul == "NUL"
ZeroedBuffer == [i \in 0 .. MAX_CMD_LENGTH - 1 |-> Nul]

\* The reader before the first character: nothing received, inputIndex = 0.
ReaderInit ==
    /\ serialRx = <<>>
    /\ inputBuffer = ZeroedBuffer
    /\ inputIndex = 0
    /\ written = {}
    /\ dropped = 0

\* ------------------------------------------------------------- Init ----
\* The state when setup() returns, for a store that holds the default servo
\* angles and timeout and a bobbin of LayerTurns turns per layer.
Init ==
    /\ pc = "serial"
    /\ cmd = "NONE"
    /\ args = <<>>
    /\ report = ""
    /\ running = FALSE
    /\ paused = FALSE
    /\ outputsEnabled = FALSE
    /\ enPin = "HIGH"
    /\ servoAttached = FALSE
    /\ targetTurns = 0
    /\ stepCount = 0
    /\ totalSteps = 0
    /\ turnsPerLayer = LayerTurns
    /\ sweepControlMode = "FIRMWARE"
    /\ servoMinAngle = Deg(DefaultServoMin)
    /\ servoMaxAngle = Deg(DefaultServoMax)
    /\ servoPos = Deg(DefaultServoMin)
    /\ pattern = <<0, 0, 0, 0>>
    /\ sinceLastCommand = 0
    /\ timeoutLimit = TimeoutUnits
    /\ wireDiameter = DefaultWireDiameter
    /\ bobbinLength = DefaultBobbinLength
    /\ bobbinWidth = DefaultBobbinWidth
    /\ bobbinHeight = LayerTurns * DefaultWireDiameter
    /\ avgTurnLength = 0
    /\ lastCalcRequestedResistance = 0
    /\ initialStepDelay = DefaultStepDelay
    /\ minStepDelay = InitialMinStepDelay
    /\ accelSteps = DefaultAccelSteps
    /\ stepperForward = TRUE
    /\ addr = PassBytes
    /\ EEPROM = FactoryStore
    /\ fault = "none"
    /\ jobHistory = "none"
    /\ jobTicks = 0
    /\ jobPulses = 0
    /\ ramp = "none"
    /\ ReaderInit

\* ------------------------------------------------- command dispatcher --
\* History kept for the claims: what has been received since WIND START.
NextJobHistory(c) ==
    IF c = "WIND START" THEN "quiet"
    ELSE IF jobHistory = "none" THEN "none"
    ELSE IF c \in {"WIND PAUSE", "WIND RESUME"}
            /\ jobHistory \in {"quiet", "pause"}
         THEN "pause"
    ELSE "other"

History(c) ==
    /\ jobHistory' = NextJobHistory(c)
    /\ jobTicks' = 0
    /\ jobPulses' = (IF NextJobHistory(c) = "pause" THEN jobPulses ELSE 0)
    /\ UNCHANGED ramp

\* Faulty variant of ClockAfterCommand: the handler does not restart the clock.
ClockNotRestarted(spent) == Clock(sinceLastCommand + spent)

\* processCommand() sets lastCommandTime = millis() on entry, for every line
\* it is given; spent is the time the handler then takes.
ClockAfterCommand(spent) == Clock(spent)

\* The part every handler shares: loop() has read a complete line, command
\* c with the argument tokens a, and processCommand() has run on it, taking
\* spent clock units.
\* The characters of the line are not kept: the reader's buffer and index
\* are followed character by character by ReadSerial alone.
ReceiveLine(c, a, spent) ==
    /\ pc = "serial"
    /\ pc' = "timeout"
    /\ cmd' = c
    /\ args' = a
    /\ sinceLastCommand' = ClockAfterCommand(spent)
    /\ History(c)
    /\ UNCHANGED readerVars

\* The commands whose handler below draws the values of its arguments: the
\* line has tokens for them, written as one token "*".
ArgumentCommands ==
    {"WIND COUNT", "WIND SWEEP", "WIND PATTERN", "SERVO POS",
     "SERVO CALIBRATE", "STEPPER MOVE", "TEST_LAYER"}
Receive(c, spent) ==
    ReceiveLine(c, IF c \in ArgumentCommands THEN << <<"*">> >> ELSE <<>>,
                spent)

\* The same for the handlers that leave the resistance figures, the speed
\* settings and the store alone and reach no undefined operation.
Dispatch(c, spent) ==
    /\ Receive(c, spent)
    /\ UNCHANGED <<cfgVars, storeVars, fault>>

\* Time a blocking handler (a move, a test) can take.
BlockingTimes == {0, TimeoutUnits + 1}
\* Time of a handler that only waits for the servo (delay(50) .. delay(500)),
\* always below the smallest timeoutLimit a load accepts (1000 ms).
ServoWaitTimes == {0, 1}

\* checkSerial() returns false: no complete line in this iteration.
NoCommand ==
    /\ pc = "serial"
    /\ pc' = "timeout"
    /\ cmd' = "NONE"
    /\ args' = <<>>
    /\ report' = ""
    /\ UNCHANGED <<progVars, histVars, readerVars>>

\* ------------------------------------------------------ WIND commands --
\* Faulty variant of StartAngle: the start angle taken from the servo calibration in
\* every sweep mode.
StartAngleCalibrationOnly == servoMinAngle

\* The start angle WIND START gives the guide (lines 772-776).
StartAngle ==
    IF sweepControlMode = "PATTERN" THEN pattern[1] ELSE servoMinAngle

\* Faulty variant of StartedFlags: WIND START leaves paused as it was.
StartedFlagsKeepPaused == <<TRUE, paused>>

\* The flags <<running, paused>> after WIND START (lines 781-782).
StartedFlags == <<TRUE, FALSE>>

\* WIND START [-V]
WindStart ==
    /\ \E spent \in ServoWaitTimes : Dispatch("WIND START", spent)
    /\ SetOutputs(EnabledOutputs)
    /\ servoPos' = StartAngle
    /\ totalSteps' = targetTurns * stepsPerTurn
    /\ stepCount' = 0
    /\ running' = StartedFlags[1]
    /\ paused' = StartedFlags[2]
    /\ report' = "STATUS: Winding STARTED"
    /\ UNCHANGED <<targetTurns, calVars, sweepControlMode, pattern,
                   timeoutLimit>>

\* The flags <<running, paused>> after WIND STOP (line 785).
StoppedFlags == <<FALSE, paused>>

\* WIND STOP
WindStop ==
    /\ Dispatch("WIND STOP", 0)
    /\ running' = StoppedFlags[1]
    /\ paused' = StoppedFlags[2]
    /\ report' = "STATUS: Winding STOPPED"
    /\ UNCHANGED <<outVars, jobVars, calVars, sweepControlMode, servoPos,
                   pattern, timeoutLimit>>

\* The outputs <<enPin, servoAttached, outputsEnabled>> after a WIND PAUSE
\* that found the machine running (line 789).
PausedOutputs == <<enPin, servoAttached, outputsEnabled>>

\* Faulty variant of PauseAllowed: WIND PAUSE accepted in every state.
PauseAlways == TRUE

\* The guard of WIND PAUSE (line 789).
PauseAllowed == running

\* WIND PAUSE
WindPause ==
    /\ Dispatch("WIND PAUSE", 0)
    /\ IF PauseAllowed
       THEN /\ running' = FALSE
            /\ paused' = TRUE
            /\ SetOutputs(PausedOutputs)
            /\ report' = "STATUS: Winding PAUSED"
       ELSE /\ UNCHANGED <<flagVars, outVars>>
            /\ report' = ""
    /\ UNCHANGED <<jobVars, calVars, sweepControlMode, servoPos, pattern,
                   timeoutLimit>>

\* Faulty variant of ResumeAllowed: WIND RESUME accepted whenever the machine is
\* not running.
ResumeWhenNotRunning == ~running

\* The guard of WIND RESUME (line 791).
ResumeAllowed == paused

\* WIND RESUME
WindResume ==
    /\ \E spent \in (IF ResumeAllowed /\ ~servoAttached THEN ServoWaitTimes
                                                       ELSE {0}) :
          Dispatch("WIND RESUME", spent)
    /\ IF ResumeAllowed
       THEN /\ SetOutputs(EnabledOutputs)
            /\ running' = TRUE
            /\ paused' = FALSE
            /\ report' = "STATUS: Winding RESUMED"
       ELSE /\ UNCHANGED <<flagVars, outVars>>
            /\ report' = ""
    /\ UNCHANGED <<jobVars, calVars, sweepControlMode, servoPos, pattern,
                   timeoutLimit>>

\* WIND COUNT <n>
WindCount ==
    /\ Receive("WIND COUNT", 0)
    /\ \E n \in TurnArgs :
          /\ targetTurns' = n
          /\ avgTurnLength' = AvgTurnLength(bobbinLength, bobbinWidth,
                                            bobbinHeight, wireDiameter, n)
    /\ stepCount' = 0
    /\ lastCalcRequestedResistance' = 0
    /\ report' = "PARAM: Target turns"
    /\ UNCHANGED <<flagVars, outVars, totalSteps, calVars, sweepControlMode,
                   servoPos, pattern, timeoutLimit, wireDiameter, bobbinVars,
                   speedVars, storeVars, fault>>

\* WIND SWEEP FIRMWARE|GUI|PATTERN
WindSweep ==
    /\ Dispatch("WIND SWEEP", 0)
    /\ \E m \in SweepModes : sweepControlMode' = m
    /\ report' = "PARAM: Sweep control set"
    /\ UNCHANGED <<flagVars, outVars, jobVars, calVars, servoPos, pattern,
                   timeoutLimit>>

\* The mode tokens of WIND SWEEP as checkSerial() hands them on, and the
\* token HOST, which the handler does not know.
FirmwareToken == <<"F", "I", "R", "M", "W", "A", "R", "E">>
GuiToken == <<"G", "U", "I">>
PatternToken == <<"P", "A", "T", "T", "E", "R", "N">>
HostToken == <<"H", "O", "S", "T">>
SweepLines == {FirmwareToken, GuiToken, PatternToken, HostToken}

\* Faulty variant of ModeOfToken: HOST is taken for the GUI mode.
ModeOfTokenWithHost(t, old) ==
    IF t = FirmwareToken THEN "FIRMWARE"
    ELSE IF t \in {GuiToken, HostToken} THEN "GUI"
    ELSE IF t = PatternToken THEN "PATTERN"
    ELSE old

\* The chain of strcmp() of WIND SWEEP on the mode token t: the mode it
\* sets, old when no branch is taken.
ModeOfToken(t, old) ==
    IF t = FirmwareToken THEN "FIRMWARE"
    ELSE IF t = GuiToken THEN "GUI"
    ELSE IF t = PatternToken THEN "PATTERN"
    ELSE old

\* WIND SWEEP <token>, the token compared as the handler compares it.
WindSweepLine ==
    \E t \in SweepLines :
       /\ ReceiveLine("WIND SWEEP", <<t>>, 0)
       /\ sweepControlMode' = ModeOfToken(t, sweepControlMode)
       /\ report' = (IF t \in {FirmwareToken, GuiToken, PatternToken}
                     THEN "PARAM: Sweep control set" ELSE "")
       /\ UNCHANGED <<flagVars, outVars, jobVars, calVars, servoPos, pattern,
                      timeoutLimit, cfgVars, storeVars, fault>>

\* WIND PATTERN <min> <max> <turnsPerLayer> <scatter>, with the four values
\* drawn from the set given.
WindPatternFrom(given) ==
    /\ Dispatch("WIND PATTERN", 0)
    /\ \E p \in given : pattern' = p
    /\ report' = "PARAM: Sweep pattern received."
    /\ UNCHANGED <<flagVars, outVars, jobVars, calVars, sweepControlMode,
                   servoPos, timeoutLimit>>

WindPattern == WindPatternFrom(PatternArgs)

\* WIND PATTERN with 2, 1, 0 and -1 turns per layer.
WindPatternAny == WindPatternFrom(SweepPatternArgs)

\* Faulty variant of WindScatter: the new scatter restarts the pulse count.
WindScatterRestarts ==
    /\ ReceiveLine("WIND SCATTER", << <<"*">> >>, 0)
    /\ \E sp \in ScatterArgs : pattern' = [pattern EXCEPT ![4] = sp]
    /\ stepCount' = 0
    /\ report' = "PARAM: Live scatter updated"
    /\ UNCHANGED <<flagVars, outVars, targetTurns, totalSteps, calVars,
                   sweepControlMode, servoPos, timeoutLimit, cfgVars,
                   storeVars, fault>>

\* WIND SCATTER <percent>
WindScatter ==
    /\ ReceiveLine("WIND SCATTER", << <<"*">> >>, 0)
    /\ \E sp \in ScatterArgs : pattern' = [pattern EXCEPT ![4] = sp]
    /\ report' = "PARAM: Live scatter updated"
    /\ UNCHANGED <<flagVars, outVars, jobVars, calVars, sweepControlMode,
                   servoPos, timeoutLimit, cfgVars, storeVars, fault>>

\* ----------------------------------------------------- SERVO commands --
\* SERVO ENABLE
ServoEnable ==
    /\ \E spent \in (IF servoAttached THEN {0} ELSE ServoWaitTimes) :
          Dispatch("SERVO ENABLE", spent)
    /\ servoAttached' = TRUE
    /\ report' = "STATUS: Servo ENABLED"
    /\ UNCHANGED <<flagVars, enPin, outputsEnabled, jobVars, calVars,
                   sweepControlMode, servoPos, pattern, timeoutLimit>>

\* SERVO DISABLE
ServoDisable ==
    /\ Dispatch("SERVO DISABLE", 0)
    /\ servoAttached' = FALSE
    /\ report' = "STATUS: Servo DISABLED"
    /\ UNCHANGED <<flagVars, enPin, outputsEnabled, jobVars, calVars,
                   sweepControlMode, servoPos, pattern, timeoutLimit>>

\* SERVO POS <angle>
ServoPosCmd ==
    /\ \E spent \in (IF servoAttached THEN {0} ELSE ServoWaitTimes) :
          Dispatch("SERVO POS", spent)
    /\ \E a \in AngleArgs : servoPos' = a
    /\ servoAttached' = TRUE
    /\ report' = "STATUS: Servo moved to"
    /\ UNCHANGED <<flagVars, enPin, outputsEnabled, jobVars, calVars,
                   sweepControlMode, pattern, timeoutLimit>>

\* The outputs after SERVO CALIBRATE, STEPPER MOVE, TEST_STEPPER and
\* TEST_STEPPER_MOVE: each ends with disableOutputs() (lines 881, 916, 700,
\* 735).
OutputsAfterMove == DisabledOutputs

\* SERVO CALIBRATE <min> <max>, the pair drawn from the set given.
\* updateAndValidate() ends with computeWindingParameters(), which
\* recomputes turnsPerLayer from the unchanged bobbin height and wire
\* diameter and sets servoPos.
ServoCalibrateFrom(given) ==
    /\ \E spent \in ServoWaitTimes : Dispatch("SERVO CALIBRATE", spent)
    /\ \E a \in given :
          /\ servoMinAngle' = ValidatedAngles(a[1], a[2])[1]
          /\ servoMaxAngle' = ValidatedAngles(a[1], a[2])[2]
          /\ servoPos' = ValidatedAngles(a[1], a[2])[1]
    /\ SetOutputs(OutputsAfterMove)
    /\ report' = "PARAM: Servo Min/Max Angle"
    /\ UNCHANGED <<flagVars, jobVars, turnsPerLayer, sweepControlMode,
                   pattern, timeoutLimit>>

ServoCalibrate == ServoCalibrateFrom(CalibrateArgs)

\* SERVO CALIBRATE with a valid pair or a pair whose maximum is out of range.
ServoCalibrateAny == ServoCalibrateFrom(AnyCalibrateArgs)

\* ------------------------------------------------- parsing the tokens --
Digits == <<"0", "1", "2", "3", "4", "5", "6", "7", "8", "9">>
IsDigit(ch) == \E d \in 1 .. Len(Digits) : Digits[d] = ch
DigitValue(ch) == (CHOOSE d \in 1 .. Len(Digits) : Digits[d] = ch) - 1

\* The digits of token t from position i on, after the value acc:
\* <<the value read, the position after the last digit>>.
RECURSIVE ReadDigits(_, _, _)
ReadDigits(t, i, acc) ==
    IF i <= Len(t) /\ IsDigit(t[i])
    THEN ReadDigits(t, i + 1, acc * 10 + DigitValue(t[i]))
    ELSE <<acc, i>>

\* The first three digits of token t from position i on, as thousandths.
RECURSIVE ReadFraction(_, _, _)
ReadFraction(t, i, place) ==
    IF place > 0 /\ i <= Len(t) /\ IsDigit(t[i])
    THEN DigitValue(t[i]) * place + ReadFraction(t, i + 1, place \div 10)
    ELSE 0

\* Where the number of token t starts: after its sign.
NumberStart(t) == IF Len(t) > 0 /\ t[1] \in {"-", "+"} THEN 2 ELSE 1
Signed(t, v) == IF Len(t) > 0 /\ t[1] = "-" THEN -v ELSE v

\* atol(t), atoi(t): the sign and the digits t starts with, 0 without them.
Atol(t) == Signed(t, ReadDigits(t, NumberStart(t), 0)[1])

\* atof(t) in thousandths, for tokens without exponent: the sign, the digits
\* and the fraction t starts with, 0 without them.
Atof(t) ==
    LET whole == ReadDigits(t, NumberStart(t), 0)
        frac == IF whole[2] <= Len(t) /\ t[whole[2]] = "."
                THEN ReadFraction(t, whole[2] + 1, 100) ELSE 0
    IN  Signed(t, whole[1] * 1000 + frac)

\* toupper(ch): the unit letters and the letter the reader is given.
ToUpper(ch) ==
    CASE ch = "k" -> "K" [] ch = "r" -> "R" [] ch = "a" -> "A" [] OTHER -> ch

\* The token in 'action': the first token after the component, "STATUS"
\* when the line has none.
ActionToken(a) == IF a = <<>> THEN <<"S", "T", "A", "T", "U", "S">> ELSE a[1]

\* A value converted to the int of the board, two bytes in two's complement.
ToInt(x) ==
    LET span == 2 ^ (8 * SizeofInt)
        low == x % span
    IN  IF low >= span \div 2 THEN low - span ELSE low

\* WIND SPEED lines: no value, values that are not positive, and 1, 400,
\* 500 and 2000 steps per second.
SpeedLines ==
    { <<>>, << <<"0">> >>, << <<"-", "5">> >>, << <<"1">> >>,
      << <<"4", "0", "0">> >>, << <<"5", "0", "0">> >>,
      << <<"2", "0", "0", "0">> >> }

\* 1000000UL / speed / 2 assigned to the int minStepDelay (line 805).
SpeedDelay(speed) == ToInt(CDiv(CDiv(MicrosPerSecond, speed), 2))

\* WIND SPEED <stepsPerSec>
WindSpeed ==
    \E a \in SpeedLines :
       /\ ReceiveLine("WIND SPEED", a, 0)
       /\ IF Len(a) > 0 /\ ToInt(Atol(a[1])) > 0
          THEN /\ minStepDelay' = SpeedDelay(ToInt(Atol(a[1])))
               /\ report' = "PARAM: Speed set"
          ELSE /\ UNCHANGED minStepDelay
               /\ report' = ""
       /\ UNCHANGED <<flagVars, outVars, jobVars, calVars, sweepControlMode,
                      servoPos, pattern, timeoutLimit, wireDiameter,
                      bobbinVars, avgTurnLength, lastCalcRequestedResistance,
                      initialStepDelay, accelSteps, stepperForward, storeVars,
                      fault>>

\* ------------------------------------------ lines no handler accepts --
\* The actions each component with actions compares 'action' to.
KnownActions(component) ==
    CASE component = "WIND" ->
           {"START", "STOP", "PAUSE", "RESUME", "COUNT", "SPEED", "DIR",
            "SWEEP", "PATTERN", "SCATTER"}
      [] component = "SERVO" ->
           {"STATUS", "ENABLE", "DISABLE", "POS", "CALIBRATE"}
      [] component = "STEPPER" -> {"STATUS", "ENABLE", "DISABLE", "MOVE"}
      [] component = "SYS" ->
           {"STATUS", "SAVE", "LOAD", "RESET", "VERSION", "HELP"}
      [] OTHER -> {}
ActionComponents == {"WIND", "SERVO", "STEPPER", "SYS"}
ValueComponents == {"BOBBIN", "WIRE_DIA", "CALC"}

\* Lines <<component, action>> ("" for no action) the model draws.
UnknownLines ==
    { <<"FOO", "">>, <<"FOO", "BAR">>, <<"WIND", "">>, <<"WIND", "FOO">>,
      <<"SERVO", "FOO">>, <<"STEPPER", "FOO">>, <<"SYS", "FOO">> }
LineLabel(l) == IF l[2] = "" THEN l[1] ELSE l[1] \o " " \o l[2]

\* Everything of the program but the clock, the store address and the fault.
settingVars ==
    <<flagVars, outVars, jobVars, calVars, sweepControlMode, servoPos,
      pattern, timeoutLimit, cfgVars, EEPROM>>

\* A line whose component is not known, or whose action its component does
\* not know: only the first prints "ERROR: Unknown command.".
UnknownLine ==
    \E l \in UnknownLines :
       LET action == IF l[2] = "" THEN "STATUS" ELSE l[2]
       IN  /\ l[1] \notin ValueComponents
           /\ action \notin KnownActions(l[1])
           /\ ReceiveLine(LineLabel(l), <<>>, 0)
           /\ report' = (IF l[1] \in ActionComponents
                         THEN "" ELSE "ERROR: Unknown command.")
           /\ UNCHANGED <<settingVars, addr, fault>>

\* The commands whose handler does nothing when strtok_r() finds no token
\* for their argument.
GuardedCommands ==
    {"WIND COUNT", "WIND SPEED", "WIND DIR", "WIND PATTERN", "WIND SCATTER",
     "SERVO POS", "STEPPER MOVE"}

MissingArgument ==
    /\ \E c \in GuardedCommands : ReceiveLine(c, <<>>, 0)
    /\ report' = ""
    /\ UNCHANGED <<settingVars, addr, fault>>

\* WIND SWEEP without a mode: strcmp(NULL, ...) is undefined.  The build
\* compares whatever lies at address 0, so any branch or none is taken, or
\* traps.
WindSweepNoArgument ==
    /\ pc = "serial"
    /\ pc' \in {"timeout", "halted"}
    /\ cmd' = "WIND SWEEP"
    /\ args' = <<>>
    /\ sinceLastCommand' = ClockAfterCommand(0)
    /\ History("WIND SWEEP")
    /\ fault' = "null string"
    /\ sweepControlMode' \in SweepModes \cup {sweepControlMode}
    /\ report' = (IF sweepControlMode' = sweepControlMode
                  THEN "" ELSE "PARAM: Sweep control set")
    /\ UNCHANGED <<flagVars, outVars, jobVars, calVars, servoPos, pattern,
                   timeoutLimit, cfgVars, storeVars, readerVars>>

\* ------------------------------------- BOBBIN, WIRE_DIA and CALC ------
\* updateAndValidate(), for the wire diameter dia and the bobbin height hgt
\* the handler has set.
UpdateAndValidate(dia, hgt) ==
    LET angles == ValidatedAngles(servoMinAngle, servoMaxAngle)
    IN  /\ servoMinAngle' = angles[1]
        /\ servoMaxAngle' = angles[2]
        /\ wireDiameter' = ValidatedWire(dia)
        /\ turnsPerLayer' = ComputedTurnsPerLayer(hgt, ValidatedWire(dia))
        /\ servoPos' = angles[1]

T60 == <<"6", "0">>
T4 == <<"4">>
T9 == <<"9">>
\* BOBBIN lines: too few tokens, dimensions that are not positive, and
\* bobbins of 2, 1 and 0 turns of 0.2 mm wire per layer.
BobbinLines ==
    { <<>>, <<T60>>, <<T60, T4>>, <<T60, T4, T9, T9>>,
      <<T60, <<"0">>, T9>>, <<T60, T4, <<"-", "9">> >>,
      <<T60, T4, <<"X">> >>,
      <<T60, T4, <<"0", ".", "4">> >>, <<T60, T4, <<"0", ".", "2">> >>,
      <<T60, T4, <<"0", ".", "1">> >> }

\* BOBBIN 2000 4 9
LongBobbinLines == { << <<"2", "0", "0", "0">>, T4, T9 >> }

\* Faulty variant of PositiveDimensions: only the length is looked at.
PositiveLengthOnly(l, w, h) == l > 0

\* The dimensions BOBBIN accepts.
PositiveDimensions(l, w, h) == ~(l <= 0 \/ w <= 0 \/ h <= 0)

\* BOBBIN <len> <wid> <hgt>, the line drawn from the set given.
BobbinFrom(lines) ==
    \E a \in lines :
       /\ ReceiveLine("BOBBIN", a, 0)
       /\ IF Len(a) < 3
          THEN /\ report' = "ERROR: Invalid BOBBIN format"
               /\ UNCHANGED <<calVars, servoPos, wireDiameter, bobbinVars,
                              avgTurnLength>>
          ELSE LET l == Atof(a[1])
                   w == Atof(a[2])
                   h == Atof(a[3])
               IN  IF ~PositiveDimensions(l, w, h)
                   THEN /\ report' = "ERROR: Bobbin dimensions must be positive"
                        /\ UNCHANGED <<calVars, servoPos, wireDiameter,
                                       bobbinVars, avgTurnLength>>
                   ELSE /\ bobbinLength' = l
                        /\ bobbinWidth' = w
                        /\ bobbinHeight' = h
                        /\ UpdateAndValidate(wireDiameter, h)
                        /\ avgTurnLength' =
                              AvgTurnLength(l, w, h, wireDiameter',
                                            targetTurns)
                        /\ report' = "PARAM: Bobbin dimensions updated"
       /\ UNCHANGED <<flagVars, outVars, jobVars, sweepControlMode, pattern,
                      timeoutLimit, lastCalcRequestedResistance, speedVars,
                      storeVars, fault>>

Bobbin == BobbinFrom(BobbinLines)

\* BOBBIN with the lines above and with a bobbin 2000 mm long.
BobbinAny == BobbinFrom(BobbinLines \cup LongBobbinLines)

\* WIRE_DIA lines: no token, 0.2 mm, 0.4 mm, and values that are not
\* positive.
WireLines ==
    { <<>>, << <<"0", ".", "2">> >>, << <<"0", ".", "4">> >>,
      << <<"0">> >>, << <<"-", "1">> >> }

\* WIRE_DIA <mm>: 'action', never NULL, holds the value.
WireDia ==
    \E a \in WireLines :
       /\ ReceiveLine("WIRE_DIA", a, 0)
       /\ UpdateAndValidate(Atof(ActionToken(a)), bobbinHeight)
       /\ avgTurnLength' = AvgTurnLength(bobbinLength, bobbinWidth,
                                         bobbinHeight, wireDiameter',
                                         targetTurns)
       /\ report' = "PARAM: Wire diameter"
       /\ UNCHANGED <<flagVars, outVars, jobVars, sweepControlMode, pattern,
                      timeoutLimit, bobbinVars, lastCalcRequestedResistance,
                      speedVars, storeVars, fault>>

\* Millimetres of wire of diameter dia that have a resistance of one ohm:
\* area / COPPER_RESISTIVITY, PI * (dia / 2000)^2 / 1.68E-8 metres.
LengthPerOhm(dia) == (PiTimes(dia * dia) * 10) \div 672

\* totalLength_m, in millimetres, for r thousandths of an ohm.
TotalLength(r, dia) ==
    LengthPerOhm(dia) * (r \div 1000)
        + (LengthPerOhm(dia) * (r % 1000)) \div 1000

\* The loop of CALC from iteration i on, with calculatedTurns = turns:
\* <<completed, targetTurns afterwards>>.
RECURSIVE CalcLoop(_, _, _)
CalcLoop(i, turns, length) ==
    IF i = 10 THEN <<TRUE, turns>>
    ELSE LET avg == AvgTurnLength(bobbinLength, bobbinWidth, bobbinHeight,
                                  wireDiameter, turns)
         IN  IF avg <= 0 THEN <<FALSE, 0>>
             ELSE CalcLoop(i + 1, CDiv(length * 100, CDiv(avg, 10)), length)

\* CALC lines: no token, no unit, a unit but no number, values that are not
\* positive, and resistances with R and K (checkSerial() has put every
\* letter in upper case).
CalcLines ==
    { <<>>, << <<"5">> >>, << <<"A", "B", "C">> >>, << <<"R">> >>,
      << <<"0", "R">> >>, << <<"-", "5", "K">> >>,
      << <<"5", "R">> >>, << <<"1", "K">> >>, << <<"5", "X", "R">> >> }

\* CALC 0.1R and CALC 0.001R
SmallCalcLines ==
    { << <<"0", ".", "1", "R">> >>, << <<"0", ".", "0", "0", "1", "R">> >> }

\* CALC <value>R | <value>K, the line drawn from the set given.
CalcFrom(lines) ==
    \E a \in lines :
       LET action == ActionToken(a)
           unit == ToUpper(action[Len(action)])
           value == Atof(action)
           targetResistance == IF unit = "K" THEN value * 1000 ELSE value
           result == CalcLoop(0, 1000, TotalLength(targetResistance,
                                                   wireDiameter))
       IN  /\ ReceiveLine("CALC", a, 0)
           /\ IF bobbinLength <= 0 \/ bobbinWidth <= 0 \/ bobbinHeight <= 0
                 \/ wireDiameter <= 0
              THEN /\ report' = "ERROR: Not set"
                   /\ UNCHANGED <<targetTurns, avgTurnLength,
                                  lastCalcRequestedResistance>>
              ELSE IF unit \notin {"K", "R"}
              THEN /\ report' = "ERROR: Invalid CALC format"
                   /\ UNCHANGED <<targetTurns, avgTurnLength,
                                  lastCalcRequestedResistance>>
              ELSE IF targetResistance <= 0
              THEN /\ report' = "ERROR: Target resistance must be positive"
                   /\ UNCHANGED <<targetTurns, avgTurnLength,
                                  lastCalcRequestedResistance>>
              ELSE /\ lastCalcRequestedResistance' = targetResistance
                   /\ targetTurns' = result[2]
                   /\ avgTurnLength' =
                         AvgTurnLength(bobbinLength, bobbinWidth,
                                       bobbinHeight, wireDiameter, result[2])
                   /\ report' = (IF result[1]
                                 THEN "STATUS: Target turns updated."
                                 ELSE "ERROR: Could not calculate")
           /\ UNCHANGED <<flagVars, outVars, stepCount, totalSteps, calVars,
                          sweepControlMode, servoPos, pattern, timeoutLimit,
                          wireDiameter, bobbinVars, speedVars, storeVars,
                          fault>>

Calc == CalcFrom(CalcLines)

\* CALC with the lines above and with resistances below one ohm.
CalcAny == CalcFrom(CalcLines \cup SmallCalcLines)

\* ------------------------------------------------------- SYS commands --
\* SYS SAVE: saveSettings()
SysSave ==
    /\ HasRoom(1)
    /\ Receive("SYS SAVE", 0)
    /\ EEPROM' = SaveSettings(EEPROM, addr, CurrentSettings)
    /\ addr' = addr + PassBytes
    /\ report' = "STATUS: Settings saved to EEPROM"
    /\ UNCHANGED <<flagVars, outVars, jobVars, calVars, sweepControlMode,
                   servoPos, pattern, timeoutLimit, cfgVars, fault>>

\* loadSettings() then updateAndValidate() on the store st with addr = a,
\* and the last requested resistance r afterwards (r < 0: the one loaded).
LoadAndValidate(st, a, r) ==
    LET L == LoadSettings(st, a, minStepDelay)
        angles == ValidatedAngles(L[1], L[2])
        dia == ValidatedWire(L[3])
    IN  /\ servoMinAngle' = angles[1]
        /\ servoMaxAngle' = angles[2]
        /\ wireDiameter' = dia
        /\ initialStepDelay' = L[4]
        /\ timeoutLimit' = L[5]
        /\ accelSteps' = L[6]
        /\ bobbinLength' = L[7]
        /\ bobbinWidth' = L[8]
        /\ bobbinHeight' = L[9]
        /\ lastCalcRequestedResistance' = (IF r < 0 THEN L[10] ELSE r)
        /\ sweepControlMode' = ModeOfCode(L[11])
        /\ avgTurnLength' = AvgTurnLength(L[7], L[8], L[9], L[3], targetTurns)
        /\ turnsPerLayer' = ComputedTurnsPerLayer(L[9], dia)
        /\ servoPos' = angles[1]

\* SYS LOAD: loadSettings(); updateAndValidate()
SysLoad ==
    /\ HasRoom(1)
    /\ Receive("SYS LOAD", 0)
    /\ LoadAndValidate(EEPROM, addr, -1)
    /\ addr' = addr + PassBytes
    /\ report' = "STATUS: Settings loaded from EEPROM"
    /\ UNCHANGED <<flagVars, outVars, jobVars, pattern, minStepDelay,
                   stepperForward, EEPROM, fault>>

\* The body SYS RESET and RESTORE_DEFAULTS share: clearEEPROM();
\* loadSettings(); lastCalcRequestedResistance = 0.0; updateAndValidate();
\* saveSettings().
RestoreBody ==
    LET cleared == ClearEEPROM(EEPROM, addr)
    IN  /\ LoadAndValidate(cleared, addr, 0)
        /\ EEPROM' = SaveSettings(cleared, addr + PassBytes, CurrentSettings')
        /\ addr' = addr + 2 * PassBytes
        /\ report' = "STATUS: Settings saved to EEPROM"
        /\ UNCHANGED <<flagVars, outVars, jobVars, pattern, minStepDelay,
                       stepperForward, fault>>

\* SYS RESET
SysReset ==
    /\ HasRoom(2)
    /\ Receive("SYS RESET", 0)
    /\ RestoreBody

\* RESTORE_DEFAULTS
RestoreDefaults ==
    /\ HasRoom(2)
    /\ Receive("RESTORE_DEFAULTS", 0)
    /\ RestoreBody

\* A reset of the board (power cycle): the variables take their
\* initialisers, setup() runs loadSettings() from addr = 0 and
\* computeWindingParameters().  The store keeps its contents.
PowerCycle ==
    /\ pc = "serial"
    /\ pc' = "serial"
    /\ cmd' = "NONE"
    /\ args' = <<>>
    /\ report' = "Pickup Coil Winder READY"
    /\ LET L == LoadSettings(EEPROM, 0, InitialMinStepDelay)
       IN  /\ servoMinAngle' = L[1]
           /\ servoMaxAngle' = L[2]
           /\ wireDiameter' = L[3]
           /\ initialStepDelay' = L[4]
           /\ timeoutLimit' = L[5]
           /\ accelSteps' = L[6]
           /\ bobbinLength' = L[7]
           /\ bobbinWidth' = L[8]
           /\ bobbinHeight' = L[9]
           /\ lastCalcRequestedResistance' = L[10]
           /\ sweepControlMode' = ModeOfCode(L[11])
           /\ turnsPerLayer' = CDiv(L[9], L[3])
           /\ servoPos' = L[1]
    /\ addr' = PassBytes
    /\ avgTurnLength' = 0
    /\ minStepDelay' = InitialMinStepDelay
    /\ stepperForward' = TRUE
    /\ running' = FALSE
    /\ paused' = FALSE
    /\ SetOutputs(DisabledOutputs)
    /\ targetTurns' = 0
    /\ stepCount' = 0
    /\ totalSteps' = 0
    /\ pattern' = <<0, 0, 0, 0>>
    /\ sinceLastCommand' = 0
    /\ jobHistory' = "none"
    /\ jobTicks' = 0
    /\ jobPulses' = 0
    /\ ramp' = "none"
    /\ serialRx' = <<>>
    /\ inputBuffer' = ZeroedBuffer
    /\ inputIndex' = 0
    /\ written' = {}
    /\ dropped' = 0
    /\ UNCHANGED <<EEPROM, fault>>

\* --------------------------------------------------- STEPPER commands --
\* STEPPER ENABLE
StepperEnable ==
    /\ Dispatch("STEPPER ENABLE", 0)
    /\ enPin' = "LOW"
    /\ report' = "STATUS: Stepper ENABLED"
    /\ UNCHANGED <<flagVars, servoAttached, outputsEnabled, jobVars, calVars,
                   sweepControlMode, servoPos, pattern, timeoutLimit>>

\* STEPPER DISABLE
StepperDisable ==
    /\ Dispatch("STEPPER DISABLE", 0)
    /\ enPin' = "HIGH"
    /\ report' = "STATUS: Stepper DISABLED"
    /\ UNCHANGED <<flagVars, servoAttached, outputsEnabled, jobVars, calVars,
                   sweepControlMode, servoPos, pattern, timeoutLimit>>

\* STEPPER MOVE <steps>: enableOutputs(), a blocking loop of pulses that
\* counts nothing, disableOutputs().
StepperMove ==
    /\ \E spent \in BlockingTimes : Dispatch("STEPPER MOVE", spent)
    /\ SetOutputs(OutputsAfterMove)
    /\ report' = "STATUS: Stepper move completed."
    /\ UNCHANGED <<flagVars, jobVars, calVars, sweepControlMode, servoPos,
                   pattern, timeoutLimit>>

\* ------------------------------------------------------- diagnostics ---
\* TEST_STEPPER and TEST_STEPPER_MOVE ...: enableOutputs(), a blocking loop
\* of pulses that counts nothing, disableOutputs().
TestStepper ==
    /\ \E spent \in BlockingTimes : Dispatch("TEST_STEPPER", spent)
    /\ SetOutputs(OutputsAfterMove)
    /\ report' = "STATUS: Stepper test done."
    /\ UNCHANGED <<flagVars, jobVars, calVars, sweepControlMode, servoPos,
                   pattern, timeoutLimit>>

\* The while loop of TEST_LAYER (lines 658-684) from step count sc and guide
\* position pos: <<stepCount, servoPos>> when it ends.  A line read inside the
\* loop is handed to processCommand() only when it is "STOP" or starts with
\* "S ", and processCommand() knows neither: running stays true.
\* UpdateServoPosition is called with testTurns >= 1 only (total > 0).
RECURSIVE TestLayerLoop(_, _, _, _, _, _)
TestLayerLoop(sc, total, pos, testTurns, testMinAngle, testMaxAngle) ==
    IF sc < total
    THEN LET sc1 == sc + 1
             pos1 == IF sc1 > 0 /\ sc1 % stepsPerTurn = 0
                     THEN CHOOSE x \in UpdateServoPosition(sc1, testTurns,
                                   testMinAngle, testMaxAngle, 0) : TRUE
                     ELSE pos
         IN  TestLayerLoop(sc1, total, pos1, testTurns, testMinAngle,
                           testMaxAngle)
    ELSE <<sc, pos>>

\* The words WIND and STOP as checkSerial() delivers them.
WindToken == <<"W", "I", "N", "D">>
StopToken == <<"S", "T", "O", "P">>

\* Lines that can arrive while the loop of TEST_LAYER runs: none, STOP,
\* WIND STOP.
TestLoopLines == { <<>>, <<StopToken>>, <<WindToken, StopToken>> }

\* The flag running after a line has been read inside the loop of
\* TEST_LAYER (lines 659-665).  Only the whole line STOP (and a line that
\* starts with "S ") is handed to processCommand(), and processCommand()
\* clears running for the component WIND with the action STOP only (lines
\* 754-786): the line STOP has the component STOP, which no branch knows.
RunningAfterLoopLine(line) ==
    LET admitted == line = <<StopToken>>
        stops == Len(line) >= 2 /\ line[1] = WindToken /\ line[2] = StopToken
    IN  ~(admitted /\ stops)

\* TEST_LAYER [C<turns>] [A<angle>] [R1] with the C tokens and the lines
\* read inside its loop drawn from the sets given; a line is read inside
\* the loop only when the loop is entered.  The tokens of that line follow
\* the tokens of the command in args.
TestLayerFrom(turns, lines) ==
    /\ \E testTurns \in {turnsPerLayer} \cup turns,
          a \in {0} \cup TestSweepArgs, resume \in BOOLEAN,
          line \in lines, spent \in BlockingTimes :
          LET center == (servoMinAngle + servoMaxAngle) \div 2
              sweepOk == a > 0 /\ a <= 180
              testMinAngle == IF sweepOk THEN center - Deg(a) \div 2
                                         ELSE servoMinAngle
              testMaxAngle == IF sweepOk THEN center + Deg(a) \div 2
                                         ELSE servoMaxAngle
              pos0 == IF resume THEN servoPos ELSE testMinAngle
              total == testTurns * stepsPerTurn
              stopped == line # <<>> /\ ~RunningAfterLoopLine(line)
              end == IF stopped THEN <<0, pos0>>
                     ELSE TestLayerLoop(0, total, pos0, testTurns,
                                        testMinAngle, testMaxAngle)
          IN  /\ line # <<>> => total > 0
              /\ ReceiveLine("TEST_LAYER", << <<"*">> >> \o line, spent)
              /\ totalSteps' = total
              /\ stepCount' = end[1]
              /\ servoPos' = end[2]
              /\ report' = (IF stopped THEN "STATUS: Test STOPPED."
                                       ELSE "STATUS: Layer test done.")
    /\ running' = FALSE
    /\ SetOutputs(DisabledOutputs)
    /\ UNCHANGED <<paused, targetTurns, calVars, sweepControlMode, pattern,
                   timeoutLimit, cfgVars, storeVars, fault>>

TestLayer == TestLayerFrom(TestTurnArgs, {<<>>})

\* TEST_LAYER with a negative count as well and with a line read inside
\* the loop.
TestLayerAny == TestLayerFrom(TestTurnArgs \cup {-1}, TestLoopLines)

\* STATUS, SYS STATUS|VERSION|HELP, SERVO STATUS, STEPPER STATUS, which
\* print figures, and every line no branch of processCommand() knows, which
\* prints "ERROR: Unknown command.": only the clock is restarted.
OtherCommand ==
    /\ Dispatch("OTHER", 0)
    /\ report' \in {"", "ERROR: Unknown command."}
    /\ UNCHANGED <<flagVars, outVars, jobVars, calVars, sweepControlMode,
                   servoPos, pattern, timeoutLimit>>

\* ------------------------------------------------------ checkTimeout ---
\* The test of checkTimeout() (lines 253-254).
TimeoutExpired == sinceLastCommand > timeoutLimit /\ outputsEnabled

\* The flags <<running, paused>> after the timeout has fired (line 256).
TimedOutFlags == <<FALSE, paused>>

CheckTimeout ==
    /\ pc = "timeout"
    /\ pc' = "run"
    /\ IF TimeoutExpired
       THEN /\ SetOutputs(DisabledOutputs)
            /\ running' = TimedOutFlags[1]
            /\ paused' = TimedOutFlags[2]
            /\ jobHistory' = (IF jobHistory = "quiet" THEN "pause"
                                                      ELSE jobHistory)
            /\ jobTicks' = 0
            /\ report' = "STATUS: AUTO-TIMEOUT - Outputs disabled"
       ELSE /\ UNCHANGED <<flagVars, outVars, jobHistory, jobTicks>>
            /\ report' = ""
    /\ cmd' = "NONE"
    /\ args' = <<>>
    /\ UNCHANGED <<jobVars, calVars, sweepControlMode, servoPos, pattern,
                   sinceLastCommand, timeoutLimit, jobPulses, ramp, cfgVars,
                   storeVars, fault, readerVars>>

\* ------------------------------------------------- the winding step ----
\* The guard of the winding step of loop() (lines 1085 and 1087).
StepGuard == running /\ outputsEnabled /\ stepCount < totalSteps

\* Faulty variant of JobComplete: completion reported one pulse late.
JobCompleteLate(sc) == sc > totalSteps

\* The completion test of loop() (line 1109), on the count after the pulse.
JobComplete(sc) == sc >= totalSteps

\* The guide position after the pulse that makes the count sc (lines
\* 1100-1106).
GuideAfterPulse(sc) ==
    IF sc > 0 /\ sc % stepsPerTurn = 0
    THEN IF sweepControlMode = "FIRMWARE"
         THEN UpdateServoPosition(sc, turnsPerLayer, servoMinAngle,
                                  servoMaxAngle, 0)
         ELSE IF sweepControlMode = "PATTERN"
         THEN UpdateServoPosition(sc, pattern[3], pattern[1], pattern[2],
                                  pattern[4])
         ELSE {servoPos}
    ELSE {servoPos}

\* The guide update after pulse number sc divides by a zero turns-per-layer
\* (lines 217-218).
GuideDividesByZero(sc) ==
    /\ sc > 0 /\ sc % stepsPerTurn = 0
    /\ \/ sweepControlMode = "FIRMWARE" /\ turnsPerLayer = 0
       \/ sweepControlMode = "PATTERN" /\ pattern[3] = 0

\* accelSteps in pulses of the model, where a rotation has stepsPerTurn
\* pulses and not the 3200 of the firmware: the same share of a rotation,
\* rounded up to whole pulses.
RampSteps ==
    CDiv(accelSteps * stepsPerTurn + FirmwareStepsPerTurn - 1,
         FirmwareStepsPerTurn)

\* (1 - cos(x * PI)) / 2 in thousandths, for x = 0, 1/8, .. 1.
SCurveTable == <<0, 38, 146, 309, 500, 691, 854, 962, 1000>>

\* The multiplier of calculateSCurveDelay() (lines 382-384) in thousandths,
\* the quotient currentStepInRamp / totalRampSteps taken down to eighths.
SCurveMultiplier(currentStepInRamp, totalRampSteps) ==
    SCurveTable[CDiv(currentStepInRamp * (Len(SCurveTable) - 1),
                     totalRampSteps) + 1]

\* calculateSCurveDelay(): the delay of index currentStepInRamp of a ramp of
\* totalRampSteps, for 0 <= currentStepInRamp <= totalRampSteps.
CalculateSCurveDelay(currentStepInRamp, totalRampSteps) ==
    LET delayRange == initialStepDelay - minStepDelay
    IN  initialStepDelay
          - CDiv(delayRange
                   * SCurveMultiplier(currentStepInRamp, totalRampSteps),
                 1000)

\* The delay stepWithAcceleration() applies to a pulse whose ramp delay is
\* d (line 414): never below minStepDelay.
AppliedDelay(d) == IF d < minStepDelay THEN minStepDelay ELSE d

\* stepWithAcceleration() at the pulse count sc: the branch that gives
\* delayNow (lines 399-411).
StepWithAcceleration(sc) ==
    LET currentTurn == CDiv(sc, stepsPerTurn)
        stepsIntoTurn == CMod(sc, stepsPerTurn)
    IN  IF currentTurn = 0 /\ stepsIntoTurn < RampSteps
        THEN "ACCELERATE"
        ELSE IF currentTurn = targetTurns - 1
                /\ stepsIntoTurn >= stepsPerTurn - RampSteps
        THEN "DECELERATE"
        ELSE "CONSTANT SPEED"

\* Time one iteration of loop() takes, in clock units.
TickTimes == {0, 1}

\* The rest of loop() after checkTimeout(): one pulse by
\* stepWithAcceleration() when the guard holds, the guide update on a
\* rotation boundary, the completion check.
RunStep ==
    /\ pc = "run"
    /\ IF StepGuard /\ GuideDividesByZero(stepCount + 1)
       THEN \* undefined: the build's division returns some value, or traps
            /\ pc' \in {"serial", "halted"}
            /\ fault' = "division by zero"
       ELSE /\ pc' = "serial"
            /\ UNCHANGED fault
    /\ UNCHANGED <<cmd, args>>
    /\ \E dt \in TickTimes : sinceLastCommand' = Clock(sinceLastCommand + dt)
    /\ IF StepGuard
       THEN /\ stepCount' = stepCount + 1
            /\ servoPos' \in GuideAfterPulse(stepCount + 1)
            /\ IF JobComplete(stepCount + 1)
               THEN /\ running' = FALSE
                    /\ SetOutputs(DisabledOutputs)
                    /\ report' = "STATUS: Winding completed."
               ELSE /\ UNCHANGED <<running, outVars>>
                    /\ report' = ""
            /\ jobPulses' = (IF jobHistory \in {"quiet", "pause"}
                             THEN jobPulses + 1 ELSE jobPulses)
            /\ ramp' = StepWithAcceleration(stepCount)
       ELSE /\ UNCHANGED <<running, outVars, stepCount, servoPos, jobPulses>>
            /\ report' = ""
            /\ ramp' = "none"
    /\ jobTicks' = (IF jobHistory = "quiet" /\ jobTicks <= totalSteps
                    THEN jobTicks + 1 ELSE jobTicks)
    /\ UNCHANGED <<paused, targetTurns, totalSteps, calVars,
                   sweepControlMode, pattern, timeoutLimit, jobHistory,
                   cfgVars, storeVars, readerVars>>

\* ------------------------------------------------------ checkSerial ----
\* Characters the host sends: a letter, newline, carriage return.
SerialChars == {"a", "\n", "\r"}

\* c == '\n' || c == '\r' (line 450)
LineEnd(c) == c \in {"\n", "\r"}

\* Faulty variant of RoomInBuffer: the last byte is used for a character too.
RoomUpToEnd(idx) == idx < MAX_CMD_LENGTH

\* The test that admits a character (line 456).
RoomInBuffer(idx) == idx < MAX_CMD_LENGTH - 1

\* checkSerial() (lines 446-462) on the characters rx waiting, from the
\* buffer buf and the index idx, w the indices written so far and d the
\* letters read and not stored: the value returned, the characters left,
\* the buffer, the index, the indices written and the letters not stored.
\* A write beyond the array is recorded in w and leaves buf alone.
RECURSIVE CheckSerial(_, _, _, _, _)
CheckSerial(rx, buf, idx, w, d) ==
    IF rx = <<>>
    THEN [ready |-> FALSE, rx |-> rx, buf |-> buf, idx |-> idx, w |-> w,
          d |-> d]
    ELSE LET c == Head(rx)
             Write(ch) == IF idx \in DOMAIN buf
                          THEN [buf EXCEPT ![idx] = ch] ELSE buf
         IN  IF LineEnd(c)
             THEN IF idx > 0
                  THEN [ready |-> TRUE, rx |-> Tail(rx), buf |-> Write(Nul),
                        idx |-> 0, w |-> w \cup {idx}, d |-> d]
                  ELSE CheckSerial(Tail(rx), buf, idx, w, d)
             ELSE IF RoomInBuffer(idx)
                  THEN CheckSerial(Tail(rx), Write(ToUpper(c)), idx + 1,
                                   w \cup {idx}, d)
                  ELSE CheckSerial(Tail(rx), buf, idx, w, d + 1)

\* The string in buf: its characters before the first zero byte.
RECURSIVE BufferText(_, _)
BufferText(buf, i) ==
    IF i \notin DOMAIN buf \/ buf[i] = Nul THEN <<>>
    ELSE <<buf[i]>> \o BufferText(buf, i + 1)

\* The host sends one more character while the program runs.
SerialArrives ==
    /\ pc # "halted"
    /\ Len(serialRx) < RxBytes
    /\ \E c \in SerialChars : serialRx' = Append(serialRx, c)
    /\ UNCHANGED <<pc, cmd, args, report, progVars, histVars, inputBuffer,
                   inputIndex, written, dropped>>

\* The first statement of loop() (lines 1079-1081) on the characters
\* waiting: checkSerial(), and processCommand(inputBuffer) when it returns
\* true.  The lines are made of the letter A, a word no branch of
\* processCommand() knows: the command restarts the clock and prints
\* "ERROR: Unknown command."
ReadSerial ==
    /\ pc = "serial"
    /\ pc' = "timeout"
    /\ LET r == CheckSerial(serialRx, inputBuffer, inputIndex, {}, 0)
       IN  /\ serialRx' = r.rx
           /\ inputBuffer' = r.buf
           /\ inputIndex' = r.idx
           /\ written' = r.w
           /\ dropped' = r.d
           /\ IF r.ready
              THEN /\ cmd' = "OTHER"
                   /\ args' = <<BufferText(r.buf, 0)>>
                   /\ report' = "ERROR: Unknown command."
                   /\ sinceLastCommand' = ClockAfterCommand(0)
                   /\ History("OTHER")
              ELSE /\ cmd' = "NONE"
                   /\ args' = <<>>
                   /\ report' = ""
                   /\ UNCHANGED <<sinceLastCommand, histVars>>
    /\ UNCHANGED <<flagVars, outVars, jobVars, calVars, sweepControlMode,
                   servoPos, pattern, timeoutLimit, cfgVars, storeVars,
                   fault>>

\* ------------------------------------------------------------ Next -----
\* The lifecycle of a job: every command that reads or writes running,
\* paused, the outputs or the step counters, and the two steps of loop()
\* that follow the command.  The guide stays in FIRMWARE mode.
Next ==
    \/ NoCommand
    \/ WindStart
    \/ WindStop
    \/ WindPause
    \/ WindResume
    \/ WindCount
    \/ ServoCalibrate
    \/ StepperEnable
    \/ StepperDisable
    \/ StepperMove
    \/ TestStepper
    \/ TestLayer
    \/ OtherCommand
    \/ CheckTimeout
    \/ RunStep

Spec == Init /\ [][Next]_vars

\* The line reader character by character: the host sends, loop() reads.
ReaderNext ==
    \/ SerialArrives
    \/ ReadSerial
    \/ CheckTimeout
    \/ RunStep

SpecReader == Init /\ [][ReaderNext]_vars

\* The blocking tests and moves, with the WIND commands that run a job and
\* the two commands that switch the driver alone.
TestNext ==
    \/ NoCommand
    \/ WindStart
    \/ WindStop
    \/ WindCount
    \/ StepperEnable
    \/ StepperDisable
    \/ StepperMove
    \/ TestStepper
    \/ TestLayerAny
    \/ CheckTimeout
    \/ RunStep

SpecTest == Init /\ [][TestNext]_vars

\* A job under the guide commands: the sweep mode, the pattern overlay and
\* the SERVO commands, with the WIND commands that run a job.
GuideNext ==
    \/ NoCommand
    \/ WindStart
    \/ WindStop
    \/ WindPause
    \/ WindResume
    \/ WindCount
    \/ WindSweep
    \/ WindPattern
    \/ ServoEnable
    \/ ServoDisable
    \/ ServoPosCmd
    \/ ServoCalibrate
    \/ CheckTimeout
    \/ RunStep

SpecGuide == Init /\ [][GuideNext]_vars

\* The settings and the store: a command that changes a persisted setting
\* (the sweep mode), those that save, load and restore, and resets of the
\* board, with a command in every iteration of loop().
StoreNext ==
    \/ WindSweep
    \/ SysSave
    \/ SysLoad
    \/ SysReset
    \/ RestoreDefaults
    \/ PowerCycle
    \/ CheckTimeout
    \/ RunStep

\* The state when setup() returns on a board whose store is erased.
InitErased ==
    /\ pc = "serial"
    /\ cmd = "NONE"
    /\ args = <<>>
    /\ report = ""
    /\ running = FALSE
    /\ paused = FALSE
    /\ outputsEnabled = FALSE
    /\ enPin = "HIGH"
    /\ servoAttached = FALSE
    /\ targetTurns = 0
    /\ stepCount = 0
    /\ totalSteps = 0
    /\ pattern = <<0, 0, 0, 0>>
    /\ sinceLastCommand = 0
    /\ avgTurnLength = 0
    /\ minStepDelay = InitialMinStepDelay
    /\ stepperForward = TRUE
    /\ addr = PassBytes
    /\ EEPROM = ErasedStore
    /\ fault = "none"
    /\ jobHistory = "none"
    /\ jobTicks = 0
    /\ jobPulses = 0
    /\ ramp = "none"
    /\ ReaderInit
    /\ LET L == LoadSettings(ErasedStore, 0, InitialMinStepDelay)
       IN  /\ servoMinAngle = L[1]
           /\ servoMaxAngle = L[2]
           /\ wireDiameter = L[3]
           /\ initialStepDelay = L[4]
           /\ timeoutLimit = L[5]
           /\ accelSteps = L[6]
           /\ bobbinLength = L[7]
           /\ bobbinWidth = L[8]
           /\ bobbinHeight = L[9]
           /\ lastCalcRequestedResistance = L[10]
           /\ sweepControlMode = ModeOfCode(L[11])
           /\ turnsPerLayer = CDiv(L[9], L[3])
           /\ servoPos = L[1]

SpecStore == (Init \/ InitErased) /\ [][StoreNext]_vars

\* The dispatcher and the commands that take values: lines no handler
\* accepts, lines without their argument, BOBBIN, WIRE_DIA and CALC.
CmdNext ==
    \/ UnknownLine
    \/ MissingArgument
    \/ WindSweepNoArgument
    \/ WindSweepLine
    \/ ServoCalibrateAny
    \/ BobbinAny
    \/ WireDia
    \/ Calc
    \/ CheckTimeout
    \/ RunStep

SpecCmd == Init /\ [][CmdNext]_vars

\* The guide through a job: the commands that set the sweep mode, the
\* pattern, the scatter and the bobbin, WIND COUNT and WIND START.
SweepNext ==
    \/ NoCommand
    \/ WindCount
    \/ WindSweep
    \/ WindPatternAny
    \/ WindScatter
    \/ Bobbin
    \/ WindStart
    \/ CheckTimeout
    \/ RunStep

SpecSweep == Init /\ [][SweepNext]_vars

\* The speed of the pulses: WIND SPEED lines, and the saves and loads that
\* check the initial delay against the delay WIND SPEED has set.
SpeedNext ==
    \/ WindSpeed
    \/ SysSave
    \/ SysLoad
    \/ CheckTimeout
    \/ RunStep

SpecSpeed == Init /\ [][SpeedNext]_vars

\* The resistance solver: CALC lines on the bobbins and wires that BOBBIN
\* and WIRE_DIA lines set.
CalcNext ==
    \/ Bobbin
    \/ WireDia
    \/ CalcAny
    \/ CheckTimeout
    \/ RunStep

SpecCalc == Init /\ [][CalcNext]_vars

\* The state when processCommand() returns from WIND START, on a board
\* started from the factory store that has been given WIND PATTERN, WIND
\* SWEEP and WIND COUNT n before: the state WindStart leaves.
InitJob ==
    /\ pc = "timeout"
    /\ cmd = "WIND START"
    /\ args = <<>>
    /\ report = "STATUS: Winding STARTED"
    /\ running = StartedFlags[1]
    /\ paused = StartedFlags[2]
    /\ enPin = EnabledOutputs[1]
    /\ servoAttached = EnabledOutputs[2]
    /\ outputsEnabled = EnabledOutputs[3]
    /\ wireDiameter = DefaultWireDiameter
    /\ bobbinLength = DefaultBobbinLength
    /\ bobbinWidth = DefaultBobbinWidth
    /\ bobbinHeight = LayerTurns * DefaultWireDiameter
    /\ \E n \in 1..GuideTurns :
          /\ targetTurns = n
          /\ totalSteps = n * stepsPerTurn
          /\ avgTurnLength =
                AvgTurnLength(DefaultBobbinLength, DefaultBobbinWidth,
                              LayerTurns * DefaultWireDiameter,
                              DefaultWireDiameter, n)
    /\ stepCount = 0
    /\ turnsPerLayer = LayerTurns
    /\ sweepControlMode \in SweepModes
    /\ servoMinAngle = Deg(DefaultServoMin)
    /\ servoMaxAngle = Deg(DefaultServoMax)
    /\ pattern \in JobPatterns
    /\ servoPos = (IF sweepControlMode = "PATTERN" THEN pattern[1]
                                                  ELSE servoMinAngle)
    /\ timeoutLimit = TimeoutUnits
    /\ sinceLastCommand \in {ClockAfterCommand(spent) : spent \in ServoWaitTimes}
    /\ lastCalcRequestedResistance = 0
    /\ initialStepDelay = DefaultStepDelay
    /\ minStepDelay = InitialMinStepDelay
    /\ accelSteps = DefaultAccelSteps
    /\ stepperForward = TRUE
    /\ addr = PassBytes
    /\ EEPROM = FactoryStore
    /\ fault = "none"
    /\ jobHistory = "quiet"
    /\ jobTicks = 0
    /\ jobPulses = 0
    /\ ramp = "none"
    /\ ReaderInit

\* Jobs of up to GuideTurns turns followed turn by turn, left alone or given
\* SERVO POS, BOBBIN, WIND PATTERN and WIND SCATTER lines on the way.
TurnsNext ==
    \/ NoCommand
    \/ ServoPosCmd
    \/ Bobbin
    \/ WindPattern
    \/ WindScatter
    \/ CheckTimeout
    \/ RunStep

SpecTurns == InitJob /\ [][TurnsNext]_vars

\* ======================================================== the claims ====
\* Commands whose handler returns at once: the time since the last command
\* is 0 when checkTimeout() runs after them.
InstantCommands ==
    {"WIND STOP", "WIND PAUSE", "WIND COUNT", "WIND SWEEP", "WIND PATTERN",
     "SERVO DISABLE", "STEPPER ENABLE", "STEPPER DISABLE", "OTHER"}
\* Commands whose handler only waits for the servo.
ServoWaitCommands ==
    {"WIND START", "WIND RESUME", "SERVO ENABLE", "SERVO POS",
     "SERVO CALIBRATE"}

\* C1: WIND START, in any lifecycle state, sets totalSteps = targetTurns *
\* stepsPerTurn and stepCount = 0, enables the outputs, puts the guide at the
\* start angle of the sweep mode (the pattern minimum in PATTERN mode, the
\* calibrated minimum otherwise) and leaves running = true, paused = false.
C1_StartEffect ==
    (pc = "timeout" /\ cmd = "WIND START") =>
        /\ totalSteps = targetTurns * stepsPerTurn
        /\ stepCount = 0
        /\ outputsEnabled /\ enPin = "LOW" /\ servoAttached
        /\ servoPos = (IF sweepControlMode = "PATTERN" THEN pattern[1]
                                                       ELSE servoMinAngle)
        /\ running /\ ~paused
        /\ report = "STATUS: Winding STARTED"

\* A WIND START in PATTERN mode with a pattern received and turns to wind.
C1_Witness ==
    /\ pc = "timeout" /\ cmd = "WIND START"
    /\ sweepControlMode = "PATTERN"
    /\ pattern \in PatternArgs
    /\ servoPos = pattern[1] /\ servoPos # servoMinAngle
    /\ targetTurns = MaxTurns
    /\ totalSteps = MaxTurns * stepsPerTurn

\* C2: a job of N > 0 turns started by WIND START, with no further command
\* and no timeout, is running for exactly N * stepsPerTurn iterations of
\* loop(), one pulse in each, and the iteration of the last pulse leaves
\* running and disables the outputs: never earlier, never later.
C2_ExactRun ==
    (jobHistory = "quiet" /\ targetTurns > 0) =>
        /\ totalSteps = targetTurns * stepsPerTurn
        /\ stepCount = Min(jobTicks, totalSteps)
        /\ jobPulses = stepCount
        /\ running <=> jobTicks < totalSteps
        /\ outputsEnabled <=> jobTicks < totalSteps
        /\ (report = "STATUS: Winding completed.") <=>
               (pc = "serial" /\ jobTicks = totalSteps)

\* The iteration of the last pulse of an undisturbed job of MaxTurns turns.
C2_Witness ==
    /\ jobHistory = "quiet"
    /\ targetTurns = MaxTurns
    /\ jobTicks = MaxTurns * stepsPerTurn
    /\ jobPulses = MaxTurns * stepsPerTurn
    /\ ~running /\ ~outputsEnabled
    /\ report = "STATUS: Winding completed."

C4_StopIsIdle ==
    [][(pc = "serial" /\ cmd' = "WIND STOP"
            /\ jobHistory \in {"quiet", "pause"} /\ targetTurns > 0) =>
         (~running' /\ ~paused')]_vars

\* C5 (as claimed): when the timeout fires, on a job of at least one turn,
\* the outputs are disabled and the machine is neither running nor paused
\* afterwards.
C5_TimeoutIsIdle ==
    (report = "STATUS: AUTO-TIMEOUT - Outputs disabled" /\ totalSteps > 0) =>
        (~outputsEnabled /\ ~running /\ ~paused)

\* C6: checkTimeout() shuts down (disables the outputs, clears running)
\* exactly when the time since the last command exceeds timeoutLimit and the
\* outputs are enabled, and changes nothing otherwise; every command
\* restarts the clock, so the check that follows a command whose handler does
\* not block finds the clock within the limit and does not shut down.
C6_TimeoutExactly ==
    /\ [][pc = "timeout" =>
            IF sinceLastCommand > timeoutLimit /\ outputsEnabled
            THEN /\ ~outputsEnabled' /\ enPin' = "HIGH" /\ ~running'
                 /\ report' = "STATUS: AUTO-TIMEOUT - Outputs disabled"
            ELSE /\ UNCHANGED <<running, paused, outputsEnabled, enPin>>
                 /\ report' = ""]_vars
    /\ [][(pc = "serial" /\ cmd' \in InstantCommands) =>
            sinceLastCommand' = 0]_vars
    /\ [][(pc = "serial" /\ cmd' \in ServoWaitCommands) =>
            sinceLastCommand' <= timeoutLimit]_vars
    /\ [][(pc = "timeout" /\ cmd \in InstantCommands \cup ServoWaitCommands) =>
            /\ running' = running
            /\ outputsEnabled' = outputsEnabled]_vars

\* The timeout has fired on a running job in the middle of it.
C6_Witness ==
    /\ pc = "run"
    /\ report = "STATUS: AUTO-TIMEOUT - Outputs disabled"
    /\ ~outputsEnabled /\ ~running /\ ~paused
    /\ stepCount > 0 /\ stepCount < totalSteps

\* C7 (as claimed): whenever the machine is paused, in a job of at least one
\* turn, the outputs are disabled.
C7_PausedOutputsOff ==
    (paused /\ ~running /\ totalSteps > 0) =>
        (~outputsEnabled /\ enPin = "HIGH")

\* C8: WIND RESUME has an effect only when paused: then the machine is
\* running, not paused, the outputs are enabled and stepCount and totalSteps
\* are as before; in every state that is not paused it changes none of the
\* flags, outputs and counters, so no pulse starts.
C8_ResumeOnlyWhenPaused ==
    [][(pc = "serial" /\ cmd' = "WIND RESUME") =>
         /\ stepCount' = stepCount
         /\ totalSteps' = totalSteps
         /\ targetTurns' = targetTurns
         /\ IF paused
            THEN /\ running' /\ ~paused'
                 /\ outputsEnabled' /\ enPin' = "LOW"
                 /\ report' = "STATUS: Winding RESUMED"
            ELSE /\ UNCHANGED <<running, paused, outputsEnabled, enPin>>
                 /\ report' = ""]_vars

\* WIND RESUME has re-enabled the outputs of a paused job in the middle of it.
C8_Witness ==
    /\ pc = "timeout" /\ cmd = "WIND RESUME"
    /\ report = "STATUS: Winding RESUMED"
    /\ running /\ ~paused /\ outputsEnabled
    /\ stepCount > 0 /\ stepCount < totalSteps

\* C9 (as claimed): no iteration of loop() ends with the machine running and
\* stepCount >= totalSteps, for any targetTurns >= 0.
C9_NeverRunningWhenComplete ==
    (pc = "serial" /\ targetTurns >= 0) =>
        ~(running /\ stepCount >= totalSteps)

\* C10 (as claimed): the winding step of every iteration that finds the
\* machine running with stepCount < totalSteps counts exactly one pulse, and
\* that of an iteration that finds it not running counts none.
C10_OnePulsePerRunningTick ==
    [][pc = "run" =>
         /\ (running /\ stepCount < totalSteps) => stepCount' = stepCount + 1
         /\ ~running => stepCount' = stepCount]_vars


\* ------------------------------------------------ claims on the store --
\* The configuration in memory is one the checks of loadSettings() and
\* updateAndValidate() leave as it is.
ValidSettings ==
    /\ CheckedSettings(CurrentSettings, minStepDelay) = CurrentSettings
    /\ ValidatedAngles(servoMinAngle, servoMaxAngle)
           = <<servoMinAngle, servoMaxAngle>>

\* SYS SAVE has just been handled.
JustSaved == pc = "timeout" /\ cmd = "SYS SAVE"

\* C11 (as claimed): after SYS SAVE of a valid configuration the next load,
\* be it SYS LOAD in the same session or the load of setup() after a power
\* cycle, yields the value in memory for every persisted field.
C11_SaveThenLoad ==
    (JustSaved /\ ValidSettings /\ HasRoom(1)) =>
        /\ LoadSettings(EEPROM, addr, minStepDelay) = CurrentSettings
        /\ LoadSettings(EEPROM, 0, InitialMinStepDelay) = CurrentSettings

\* The defaults the specification lists: 77 and 103 degrees, 0.2 mm wire,
\* 1000 us, 10000 ms, 400 steps, a 60 x 4 x 9 mm bobbin, 0 ohm, FIRMWARE.
DefaultSettings ==
    <<Deg(DefaultServoMin), Deg(DefaultServoMax), DefaultWireDiameter,
      DefaultStepDelay, DefaultTimeout, DefaultAccelSteps,
      DefaultBobbinLength, DefaultBobbinWidth, DefaultBobbinHeight, 0,
      ModeCode("FIRMWARE")>>

\* A load has just taken place: SYS LOAD, or setup() after a power cycle.
JustLoaded ==
    \/ pc = "timeout" /\ cmd = "SYS LOAD"
    \/ report = "Pickup Coil Winder READY"

\* C12 (as claimed): a load from a store whose every byte is 0xFF yields
\* exactly the defaults.
C12_ErasedLoadsDefaults ==
    (JustLoaded /\ EEPROM = ErasedStore) => CurrentSettings = DefaultSettings

\* SYS RESET or RESTORE_DEFAULTS has just been handled.
JustRestored == pc = "timeout" /\ cmd \in {"SYS RESET", "RESTORE_DEFAULTS"}

\* What a load yields when every byte it reads is 0xFF.
ErasedSettings == LoadSettings(ErasedStore, 0, minStepDelay)

\* C13 (as claimed): after RESTORE_DEFAULTS or SYS RESET every persisted
\* field, in memory and as just saved, has the value a load of cleared bytes
\* gives it, whatever was done before.
C13_RestoreIsDeterministic ==
    JustRestored =>
        /\ CurrentSettings = ErasedSettings
        /\ LoadedRaw(EEPROM, addr - PassBytes) = ErasedSettings

\* The sweep mode stored where a load with addr = a reads it.
StoredMode(a) == Get(EEPROM, AddrAfter(a, Len(AddrStep)), "int")

\* C14: every load (setup(), SYS LOAD, SYS RESET, RESTORE_DEFAULTS) leaves
\* the sweep mode GUI when GUI is what the store holds for it, and FIRMWARE
\* when the store holds PATTERN or anything else.
C14_LoadedSweepMode ==
    /\ [][(pc = "serial"
             /\ cmd' \in {"SYS LOAD", "SYS RESET", "RESTORE_DEFAULTS"}) =>
          sweepControlMode' = (IF StoredMode(addr) = ModeCode("GUI")
                               THEN "GUI" ELSE "FIRMWARE")]_vars
    /\ [][(pc = "serial" /\ pc' = "serial") =>
          sweepControlMode' = (IF StoredMode(0) = ModeCode("GUI")
                               THEN "GUI" ELSE "FIRMWARE")]_vars

\* SYS LOAD has read PATTERN as the stored mode and left FIRMWARE.
C14_Witness ==
    /\ pc = "timeout" /\ cmd = "SYS LOAD"
    /\ StoredMode(addr - PassBytes) = ModeCode("PATTERN")
    /\ sweepControlMode = "FIRMWARE"

\* SYS LOAD has read GUI as the stored mode and kept it.
C14_GuiKept ==
    /\ pc = "timeout" /\ cmd = "SYS LOAD"
    /\ StoredMode(addr - PassBytes) = ModeCode("GUI")
    /\ sweepControlMode = "GUI"


\* ------------------------------------------- claims on the dispatcher --
\* The reports that are errors.
ErrorReports ==
    {"ERROR: Unknown command.", "ERROR: Invalid BOBBIN format",
     "ERROR: Bobbin dimensions must be positive", "ERROR: Not set",
     "ERROR: Invalid CALC format",
     "ERROR: Target resistance must be positive",
     "ERROR: Could not calculate"}

\* C15 (as claimed): a line whose component is not known, or whose action
\* its component does not know (WIND with an unknown action, WIND alone),
\* gets the unrecognized-command error report and changes no configuration
\* or job state.
C15_UnknownLineReported ==
    [][(pc = "serial" /\ cmd' \in {LineLabel(l) : l \in UnknownLines}) =>
         (report' = "ERROR: Unknown command." /\ UNCHANGED settingVars)]_vars

\* C16 (as claimed): WIND COUNT, WIND SPEED, WIND DIR, WIND SWEEP, WIND
\* PATTERN, WIND SCATTER, SERVO POS, STEPPER MOVE and WIRE_DIA without their
\* argument change no configuration or job state and raise no error.
C16_MissingArgumentNoOp ==
    [][(pc = "serial" /\ args' = <<>>
            /\ cmd' \in GuardedCommands \cup {"WIND SWEEP", "WIRE_DIA"}) =>
         (report' \notin ErrorReports /\ UNCHANGED settingVars)]_vars

\* BOBBIN with the argument tokens a has fewer than three of them, or a
\* dimension that is not positive.
BobbinRejected(a) == Len(a) < 3 \/ \E i \in 1 .. 3 : Atof(a[i]) <= 0

\* CALC with the argument tokens a has the geometry or the wire unset, no
\* value, a value that does not end in R or K, or a resistance that is not
\* positive.
CalcRejected(a) ==
    \/ bobbinLength <= 0 \/ bobbinWidth <= 0 \/ bobbinHeight <= 0
    \/ wireDiameter <= 0
    \/ a = <<>>
    \/ ToUpper(a[1][Len(a[1])]) \notin {"K", "R"}
    \/ Atof(a[1]) <= 0

C17_BobbinRejection ==
    /\ pc = "timeout" /\ cmd = "BOBBIN" /\ Len(args) = 3
    /\ BobbinRejected(args)
    /\ report = "ERROR: Bobbin dimensions must be positive"


\* ------------------------------------------------ claims on the guide --
\* C18 (as claimed): no sequence of lines and ticks takes a handler or a
\* tick to an undefined operation (a division by a zero turnsPerLayer in the
\* guide computation, a null string handed to a comparison), and the loop
\* goes on to accept the next line.
C18_NoUndefinedOperation == fault = "none" /\ pc # "halted"

\* The sweep the guide computation of the job is given: <<turns per layer,
\* minimum, maximum, scatter>>, the pattern in PATTERN mode and the
\* calibrated range without scatter otherwise.
JobSweep ==
    IF sweepControlMode = "PATTERN"
    THEN <<pattern[3], pattern[1], pattern[2], pattern[4]>>
    ELSE <<turnsPerLayer, servoMinAngle, servoMaxAngle, 0>>

\* The minimum and the maximum inset by half the scatter margin each.
EffectiveMin == JobSweep[2] + (((JobSweep[3] - JobSweep[2]) * JobSweep[4]) \div 100) \div 2
EffectiveMax == JobSweep[3] - (((JobSweep[3] - JobSweep[2]) * JobSweep[4]) \div 100) \div 2

\* A job that has been given nothing but WIND PAUSE and WIND RESUME since
\* its WIND START.
InJob == jobHistory \in {"quiet", "pause"}

\* C19 (as claimed): in a job in FIRMWARE or PATTERN mode with more than one
\* turn per layer the guide is within [effectiveMin, effectiveMax] from the
\* position WIND START sets to the last rotation.
C19_GuideInRange ==
    (InJob /\ sweepControlMode \in {"FIRMWARE", "PATTERN"} /\ JobSweep[1] > 1)
        => (EffectiveMin <= servoPos /\ servoPos <= EffectiveMax)

\* The layer of turn n, each turn a layer of its own when there are no
\* turns per layer.
LayerOf(n) == IF JobSweep[1] = 0 THEN n ELSE CDiv(n, JobSweep[1])

\* C20 (as claimed): with at most one turn per layer (1, 0, negative) the
\* guide computation at the end of a turn is defined and yields effectiveMin
\* on an even layer and effectiveMax on an odd one.
C20_LayerEnds ==
    [][(pc = "run" /\ StepGuard /\ fault = "none"
          /\ (stepCount + 1) % stepsPerTurn = 0
          /\ sweepControlMode \in {"FIRMWARE", "PATTERN"}
          /\ JobSweep[1] <= 1) =>
         /\ fault' = "none"
         /\ servoPos' = (IF LayerOf((stepCount + 1) \div stepsPerTurn) % 2 = 0
                         THEN EffectiveMin ELSE EffectiveMax)]_vars

\* The pitch angle of the job: the effective range over the gaps between
\* the turns of a layer.
PitchAngle == CDiv(EffectiveMax - EffectiveMin, JobSweep[1] - 1)

C22_HostGuideChanges ==
    [][(sweepControlMode = "GUI" /\ running /\ servoPos' # servoPos) =>
         (pc = "serial" /\ cmd' \in {"SERVO POS", "WIND START"})]_vars

\* The part of C22 on the iterations of loop(): in GUI mode neither
\* checkTimeout() nor the winding step changes the guide position.
C22_TicksLeaveGuide ==
    [][(sweepControlMode = "GUI" /\ pc \in {"timeout", "run"}) =>
         servoPos' = servoPos]_vars

\* A running GUI job whose guide a SERVO POS line has moved and which has
\* gone on winding.
C22_HostJobMoved ==
    /\ sweepControlMode = "GUI" /\ running /\ stepCount > stepsPerTurn
    /\ servoPos \in AngleArgs /\ servoPos # servoMinAngle

\* The targets the guide computation can give at the end of turn n from the
\* sweep the job is given now.
TargetsOfTurn(n) ==
    IF JobSweep[1] = 0 THEN {EffectiveMin, EffectiveMax}
    ELSE IF JobSweep[1] <= 1
    THEN {IF LayerOf(n) % 2 = 0 THEN EffectiveMin ELSE EffectiveMax}
    ELSE {IF LayerOf(n) % 2 = 0
          THEN EffectiveMin + (n % JobSweep[1]) * PitchAngle
          ELSE EffectiveMax - (n % JobSweep[1]) * PitchAngle}

\* C23: a WIND PATTERN or WIND SCATTER line changes the pattern overlay and
\* leaves running, paused, the pulse counters, the target, the sweep mode,
\* the outputs and the guide position as they are; in PATTERN mode the
\* target computed at the end of a turn is the one of the overlay as it is
\* at that pulse.
C23_LiveOverlay ==
    [][/\ (pc = "serial" /\ cmd' \in {"WIND PATTERN", "WIND SCATTER"}) =>
             UNCHANGED <<flagVars, jobVars, sweepControlMode, outVars,
                         servoPos, calVars, cfgVars, storeVars>>
       /\ (pc = "run" /\ StepGuard /\ sweepControlMode = "PATTERN"
              /\ (stepCount + 1) % stepsPerTurn = 0) =>
             servoPos' \in TargetsOfTurn((stepCount + 1) \div stepsPerTurn)]_vars

\* A WIND SCATTER line has been taken in the middle of a turn of a running
\* PATTERN job, the pulses done so far kept.
C23_Witness ==
    /\ pc = "timeout" /\ cmd = "WIND SCATTER"
    /\ running /\ outputsEnabled /\ sweepControlMode = "PATTERN"
    /\ stepCount > 0 /\ stepCount < totalSteps
    /\ pattern[4] \in ScatterArgs

\* The turn that was under way when the scatter came has ended on a target
\* inset by the new scatter.
C23_NewScatterUsed ==
    /\ sweepControlMode = "PATTERN" /\ jobHistory = "other"
    /\ stepCount = stepsPerTurn /\ pattern = <<Deg(80), Deg(100), 2, 10>>
    /\ servoPos = Deg(99)

\* ------------------------------------------- claims on the settings ----
\* Everything a WIND SWEEP line has no business with: all the state but the
\* sweep mode, the timeout clock and what is kept of the line itself.
BesideSweepMode ==
    <<flagVars, outVars, jobVars, calVars, servoPos, pattern, timeoutLimit,
      cfgVars, storeVars, fault>>

\* C24 (as claimed): WIND SWEEP FIRMWARE, WIND SWEEP HOST and WIND SWEEP
\* PATTERN set the sweep mode to the firmware, the host (GUI) and the
\* pattern mode, and change nothing else.
C24_SweepTokensAsClaimed ==
    [][(pc = "serial" /\ cmd' = "WIND SWEEP" /\ Len(args') = 1
          /\ args'[1] \in {FirmwareToken, HostToken, PatternToken}) =>
         /\ sweepControlMode' =
               (CASE args'[1] = FirmwareToken -> "FIRMWARE"
                  [] args'[1] = HostToken -> "GUI"
                  [] OTHER -> "PATTERN")
         /\ UNCHANGED BesideSweepMode]_vars

\* C24 (amended): the tokens are FIRMWARE, GUI and PATTERN; each sets its
\* mode and changes nothing else, and WIND SWEEP HOST changes nothing at all.
C24_SweepTokens ==
    [][(pc = "serial" /\ cmd' = "WIND SWEEP" /\ Len(args') = 1
          /\ args'[1] \in SweepLines) =>
         /\ sweepControlMode' =
               (CASE args'[1] = FirmwareToken -> "FIRMWARE"
                  [] args'[1] = GuiToken -> "GUI"
                  [] args'[1] = PatternToken -> "PATTERN"
                  [] OTHER -> sweepControlMode)
         /\ UNCHANGED BesideSweepMode]_vars

\* WIND SWEEP GUI has put the guide under the control of the host.
C24_Witness ==
    /\ pc = "timeout" /\ cmd = "WIND SWEEP" /\ args = <<GuiToken>>
    /\ sweepControlMode = "GUI"

\* C25 (as claimed): a SERVO line (STATUS, ENABLE, DISABLE, POS, CALIBRATE)
\* leaves running, paused, the pulse counters, the outputs-enabled flag and
\* the enable line of the stepper as they were.
C25_ServoLeavesJob ==
    [][(pc = "serial"
          /\ cmd' \in {"SERVO STATUS", "SERVO ENABLE", "SERVO DISABLE",
                       "SERVO POS", "SERVO CALIBRATE"}) =>
         UNCHANGED <<running, paused, stepCount, totalSteps, outputsEnabled,
                     enPin>>]_vars

\* A job left running with its outputs disabled by SERVO CALIBRATE: no
\* pulse is made any more.
C25_StalledJob ==
    /\ pc = "timeout" /\ cmd = "SERVO CALIBRATE"
    /\ running /\ ~outputsEnabled /\ enPin = "HIGH"
    /\ stepCount < totalSteps


\* C26 (as claimed): after startup and after every line the calibrated
\* range of the guide satisfies 0 <= minAngle < maxAngle <= 180.
C26_AnglesValid ==
    /\ 0 <= servoMinAngle
    /\ servoMinAngle < servoMaxAngle
    /\ servoMaxAngle <= Deg(180)

\* C27 (as claimed): in every state initialStepDelay > minStepDelay > 0.
C27_DelaysOrdered == initialStepDelay > minStepDelay /\ minStepDelay > 0

\* WIND SPEED 2000 has been taken: a delay of 250 microseconds, below the
\* initial delay.
C27_FastSpeedTaken ==
    /\ cmd = "WIND SPEED" /\ minStepDelay = 250
    /\ initialStepDelay > minStepDelay

\* C28 (as claimed): in every state the bobbin is 0 < length <= 1000 mm,
\* 0 < width <= 1000 mm and 0 < height <= 100 mm.
C28_BobbinInRange ==
    /\ 0 < bobbinLength /\ bobbinLength <= MaxBobbinSide
    /\ 0 < bobbinWidth /\ bobbinWidth <= MaxBobbinSide
    /\ 0 < bobbinHeight /\ bobbinHeight <= MaxBobbinHeight

\* C29 (as claimed): in every state turnsPerLayer is the whole number of
\* wire diameters in the bobbin height, and 1 when that is less than 1.
C29_TurnsPerLayer ==
    turnsPerLayer = (IF CDiv(bobbinHeight, wireDiameter) < 1 THEN 1
                     ELSE CDiv(bobbinHeight, wireDiameter))

\* BOBBIN 60 4 9 with a wire of 0.2 mm: 45 turns per layer.
C29_FortyFive ==
    /\ bobbinHeight = 9000 /\ wireDiameter = 200 /\ turnsPerLayer = 45

\* ------------------------------------------ claims on the pulse delay --
\* The ramp the claim gives the pulse made at the count sc: the last
\* rotation is that of the job, totalSteps / stepsPerTurn - 1.
ClaimedRamp(sc) ==
    IF sc \div stepsPerTurn = 0 /\ sc % stepsPerTurn < RampSteps
    THEN "ACCELERATE"
    ELSE IF sc \div stepsPerTurn = totalSteps \div stepsPerTurn - 1
            /\ sc % stepsPerTurn >= stepsPerTurn - RampSteps
    THEN "DECELERATE"
    ELSE "CONSTANT SPEED"

\* C30 (as claimed): every pulse of a job is on the acceleration ramp when
\* it is one of the first pulses of rotation 0, on the deceleration ramp
\* when it is one of the last pulses of the last rotation of the job, and
\* at the constant delay otherwise, WIND COUNT lines during the job
\* notwithstanding.
C30_RampOfEveryPulse ==
    [][(pc = "run" /\ StepGuard) => ramp' = ClaimedRamp(stepCount)]_vars

\* The same for the jobs whose target has not been changed since WIND
\* START.
C30_RampOfQuietJob ==
    [][(pc = "run" /\ StepGuard /\ InJob) => ramp' = ClaimedRamp(stepCount)]_vars

\* The last pulse of a job of several rotations has been made on the
\* deceleration ramp.
C30_Decelerated ==
    /\ InJob /\ ramp = "DECELERATE" /\ stepCount = totalSteps
    /\ totalSteps > 2 * stepsPerTurn

\* C31 (as claimed): over the indices 0 .. accelSteps of the ramp the delay
\* of calculateSCurveDelay does not increase, it is initialStepDelay at
\* index 0 and minStepDelay at index accelSteps; the delays applied over
\* the deceleration, index accelSteps down to 1, do not decrease; and no
\* applied delay is below minStepDelay.
C31_RampMonotone ==
    /\ \A i \in 0 .. (accelSteps - 1) :
          CalculateSCurveDelay(i + 1, accelSteps)
             <= CalculateSCurveDelay(i, accelSteps)
    /\ CalculateSCurveDelay(0, accelSteps) = initialStepDelay
    /\ CalculateSCurveDelay(accelSteps, accelSteps) = minStepDelay
    /\ \A i \in 1 .. (accelSteps - 1) :
          AppliedDelay(CalculateSCurveDelay(i, accelSteps))
             >= AppliedDelay(CalculateSCurveDelay(i + 1, accelSteps))
    /\ \A i \in 0 .. accelSteps :
          AppliedDelay(CalculateSCurveDelay(i, accelSteps)) >= minStepDelay

\* The same for the boards whose delays are ordered as C27 has them.
C31_RampOfOrderedDelays ==
    (initialStepDelay > minStepDelay /\ minStepDelay > 0) => C31_RampMonotone

\* WIND SPEED 2000 has been taken and the ramp falls from 1000 to 250
\* microseconds, through 625 at its middle.
C31_RampFalls ==
    /\ cmd = "WIND SPEED" /\ minStepDelay = 250
    /\ CalculateSCurveDelay(accelSteps \div 2, accelSteps) = 625

\* ------------------------------------------------ claims on the solver --
\* A CALC line has been accepted and has ended with its result.
CalcAccepted ==
    pc = "timeout" /\ cmd = "CALC" /\ report = "STATUS: Target turns updated."

\* The turns one more iteration of the loop of CALC would give.
NextCalcTurns ==
    CDiv(TotalLength(lastCalcRequestedResistance, wireDiameter) * 100,
         CDiv(avgTurnLength, 10))

\* The wire of the result in millimetres, targetTurns * avgTurnLength, and
\* the wire of the resistance asked for.
ResultLength == (targetTurns * CDiv(avgTurnLength, 10)) \div 100
AskedLength == TotalLength(lastCalcRequestedResistance, wireDiameter)

\* C32 (as claimed): after an accepted CALC the turns are stable, one more
\* iteration gives them again, and the resistance of targetTurns turns of
\* avgTurnLength is within 5 % of the resistance asked for.
C32_SolverAsClaimed ==
    CalcAccepted =>
       /\ NextCalcTurns = targetTurns
       /\ 20 * Abs(ResultLength - AskedLength) <= AskedLength

\* The scenario of C32: CALC 1000R (1K) on the bobbin 60 / 4 / 9 with wire of
\* 0.2 mm.
CalcScenario ==
    /\ CalcAccepted
    /\ bobbinLength = DefaultBobbinLength /\ bobbinWidth = DefaultBobbinWidth
    /\ bobbinHeight = DefaultBobbinHeight
    /\ wireDiameter = DefaultWireDiameter
    /\ lastCalcRequestedResistance = 1000000

\* In the scenario the resistance of the result is within 5 % of the
\* resistance asked for, and one more iteration would move the turns by
\* less than one in a thousand.
C32_ScenarioWithinTolerance ==
    CalcScenario =>
       /\ 20 * Abs(ResultLength - AskedLength) <= AskedLength
       /\ 1000 * Abs(NextCalcTurns - targetTurns) <= targetTurns

\* The scenario has been computed: 7755 turns, the eleventh iteration
\* would give 7760.
C32_ScenarioResult ==
    CalcScenario /\ targetTurns = 7755 /\ NextCalcTurns = 7760

\* C39: a CALC is all or nothing. Either it ends without the report of
\* success and leaves targetTurns, avgTurnLength and the resistance last
\* asked for as they were, or it reports success with at least one turn
\* and a positive average turn length.
C39_CalcAllOrNothing ==
    [][(pc = "serial" /\ cmd' = "CALC") =>
          \/ /\ report' # "STATUS: Target turns updated."
             /\ UNCHANGED <<targetTurns, avgTurnLength,
                            lastCalcRequestedResistance>>
          \/ /\ report' = "STATUS: Target turns updated."
             /\ targetTurns' >= 1
             /\ avgTurnLength' > 0]_vars

\* A CALC has ended with the error of the solver.
C39_SolverError ==
    /\ pc = "timeout"
    /\ cmd = "CALC"
    /\ report = "ERROR: Could not calculate"

\* ---------------------------------------------- claims on the tests ----
\* C33: TEST_LAYER polls for a stop line in its loop.  When the line STOP
\* arrives during the test, the test ends before the remaining pulses,
\* reports that it was stopped and disables the outputs.
C33_StopEndsTest ==
    [][(pc = "serial" /\ cmd' = "TEST_LAYER"
           /\ args' = << <<"*">>, StopToken >>) =>
          /\ stepCount' < totalSteps'
          /\ report' = "STATUS: Test STOPPED."
          /\ ~outputsEnabled'
          /\ enPin' = "HIGH"]_vars

\* The commands that block loop() while they emit pulses.
BlockingCommands == {"TEST_LAYER", "TEST_STEPPER", "STEPPER MOVE"}

\* C34: every blocking test or move returns, for every count asked for, zero
\* and negative counts included, after at most the pulses asked for, and
\* on return the machine is not RUNNING and the outputs are disabled.
C34_BlockingCommandsReturnIdle ==
    [][(pc = "serial" /\ cmd' \in BlockingCommands) =>
          /\ pc' = "timeout"
          /\ ~running'
          /\ ~outputsEnabled'
          /\ enPin' = "HIGH"
          /\ cmd' = "TEST_LAYER" =>
                (stepCount' = 0 \/ stepCount' <= totalSteps')]_vars

\* The part of C34 on the pulses and the outputs: a blocking command
\* returns with the outputs disabled, and TEST_LAYER has counted no pulse
\* for a count that is not positive and never more than asked for.
C34_BlockingCommandsReturn ==
    [][(pc = "serial" /\ cmd' \in BlockingCommands) =>
          /\ pc' = "timeout"
          /\ ~outputsEnabled'
          /\ enPin' = "HIGH"
          /\ cmd' = "TEST_LAYER" =>
                (stepCount' = 0 \/ stepCount' <= totalSteps')]_vars

\* --------------------------------------- claims on the flags and counts --
\* C35: outputsEnabled is true exactly when EN_PIN is low.
C35_EnableMirrorsPin == outputsEnabled <=> enPin = "LOW"

\* The consequence C35 draws: loop() counts a pulse only while the stepper
\* driver is enabled.
C35_PulsesNeedDriver ==
    [][(pc = "run" /\ stepCount' # stepCount) => enPin = "LOW"]_vars

\* C36: at the start of every iteration of loop() running and paused are
\* not both true.
C36_NotRunningAndPaused == pc = "serial" => ~(running /\ paused)

\* A job that was started and paused after its first pulse is at the start
\* of an iteration of loop().
C36_Witness ==
    /\ pc = "serial"
    /\ jobHistory = "pause"
    /\ paused
    /\ ~running
    /\ stepCount = 1

\* C37: in every state targetTurns is not negative and the pulses counted
\* lie between zero and the pulses of the job.
C37_CountsInRange ==
    /\ targetTurns >= 0
    /\ 0 <= stepCount
    /\ stepCount <= totalSteps

\* The part of C37 that holds: the pulses counted are never negative and
\* never above the pulses of a job that has any.
C37_CountsBelowTotal ==
    /\ 0 <= stepCount
    /\ totalSteps >= 0 => stepCount <= totalSteps

\* C38: while the machine is RUNNING or PAUSED the pulses of the job are
\* targetTurns times the pulses of a rotation.
C38_JobFigures ==
    (running \/ paused) => totalSteps = targetTurns * stepsPerTurn

\* The other half of C38: WIND COUNT, CALC and TEST_LAYER given while the
\* machine is RUNNING or PAUSED leave targetTurns, the pulses of the job and
\* the pulses counted as they were.
C38_CommandsLeaveJob ==
    [][(pc = "serial" /\ (running \/ paused)
           /\ cmd' \in {"WIND COUNT", "CALC", "TEST_LAYER"}) =>
          UNCHANGED <<targetTurns, totalSteps, stepCount>>]_vars

\* ------------------------------------------ claims on the line reader --
\* The letters among the first n characters of rx, in upper case.
LettersBefore(rx, n) ==
    LET t == SelectSeq(SubSeq(rx, 1, n), LAMBDA c : ~LineEnd(c))
    IN  [i \in 1 .. Len(t) |-> ToUpper(t[i])]

\* The positions of rx at which a line that is not empty ends, the buffer
\* holding idx characters of it already.
LineEndsIn(rx, idx) ==
    { p \in 1 .. Len(rx) :
         LineEnd(rx[p]) /\ idx + Len(LettersBefore(rx, p)) > 0 }

\* The first n characters of t, all of t when it has fewer.
Take(t, n) == SubSeq(t, 1, Min(Len(t), n))

=============================================================================
